---- MODULE Spec2Model ----
(***************************************************************************)
(* Grabby: the priority download queue (EnhancedQueueManager), its         *)
(* bandwidth ledger and retry policy, driven by the process_queue workers  *)
(* of the downloader and by user commands (cancel, pause, resume, purge).  *)
(*                                                                         *)
(* Time.  The code compares datetime.now() with two kinds of stored        *)
(* instants only: created_at of two items (queue order) and the next       *)
(* retry instant of an item.  created_at is kept as the creation stamp of  *)
(* the item (strictly increasing, one per add_item); a retry instant is    *)
(* kept as the number of seconds that still have to pass before it, so     *)
(* "now >= next_retry" reads "retry_times[id] = 0" and one second of wall  *)
(* clock is the action Tick.  started_at and completed_at are never        *)
(* compared by the code; each is kept as the number of instants written to *)
(* it so far (0 for None): a later write stores a later instant.           *)
(***************************************************************************)
EXTENDS Integers, Sequences, FiniteSets, TLC

\* ---------------------------------------------------------------- bounds
MaxItems == 2          \* add_item calls in one run
MaxUserOps == 2        \* cancel / pause / resume / clear_completed calls in one run
NumWorkers == 2        \* process_queue coroutines running side by side
MaxSkips == 2          \* add_item calls turned away as duplicates in one run
MaxRestarts == 1       \* restarts of the manager process in one run
MaxOverrun == 2        \* seconds a cancelled item's child process is followed
MaxEvents == 2         \* publish calls in one run
NumSockets == 2        \* WebSocket connections
MaxHandlers == 2       \* handlers subscribed to one event type at a time
MaxRules == 3          \* rules the engine holds when add_rule is called
MaxOutput == 3         \* chunks of output a child process writes in one run

\* ------------------------------------------------------ program constants
LOW == 1
NORMAL == 2
HIGH == 3
URGENT == 4
DefaultMaxRetries == 3
DefaultBandwidth == 1048576
base_delay == 1
max_delay == 300

\* chunks a stream of a child process takes up while nobody reads it
PipeCapacity == 2

NoLimit == -1          \* total_limit is None
NoItem == 0            \* no item (None) / no worker is inside get_next_item

Workers == 1..NumWorkers
PriorityChoices == {NORMAL, URGENT}
MaxRetriesChoices == {0, DefaultMaxRetries}
MaxConcurrentChoices == {1, 2}
TotalLimitChoices == {NoLimit, DefaultBandwidth}

PENDING == "pending"
DOWNLOADING == "downloading"
COMPLETED == "completed"
FAILED == "failed"
RETRYING == "retrying"
CANCELLED == "cancelled"
PAUSED == "paused"
QueueStatus == {PENDING, DOWNLOADING, COMPLETED, FAILED, RETRYING, CANCELLED, PAUSED}
Terminal == {COMPLETED, FAILED, CANCELLED}

Streams == {"stdout", "stderr"}
NoFile == [exists |-> FALSE, document |-> <<>>]
File(document) == [exists |-> TRUE, document |-> document]

\* EngineType
YT_DLP_ARIA2 == "yt-dlp+aria2c"
STREAMLINK == "streamlink"
GALLERY_DL == "gallery-dl"
RIPME == "ripme"
AUTO == "auto"
Engines == {YT_DLP_ARIA2, STREAMLINK, GALLERY_DL, RIPME}
EngineType == Engines \cup {AUTO}
NoEngine == "None"     \* select_engine returns None
NoOption == ""         \* download_options has no key 'engine_type'

\* EventType (the members this model publishes)
DOWNLOAD_QUEUED == "download.queued"
DOWNLOAD_PROGRESS == "download.progress"
EventType == {DOWNLOAD_QUEUED, DOWNLOAD_PROGRESS}
DefaultMaxHistory == 1000

\* RuleConditionType, ComparisonOperator, RuleActionType
URL_PATTERN == "url_pattern"
CONTAINS == "contains"
SET_PRIORITY == "set_priority"
RuleConditionType ==
    {URL_PATTERN, "domain", "title_pattern", "uploader", "duration", "file_size",
     "view_count", "upload_date", "time_of_day", "day_of_week", "queue_size",
     "bandwidth_usage"}
ComparisonOperator ==
    {"equals", "not_equals", CONTAINS, "not_contains", "matches", "not_matches",
     "greater_than", "less_than", "greater_equal", "less_equal", "in_range"}
RuleActionType ==
    {SET_PRIORITY, "set_profile", "set_quality", "set_output_path", "rate_limit",
     "schedule_download", "block_download", "notify", "auto_organize",
     "extract_audio"}
Sockets == 1..NumSockets

VARIABLES
    max_concurrent,     \* EnhancedQueueManager.max_concurrent
    max_retries,        \* QueueItem.max_retries of the items of this manager
    total_limit,        \* BandwidthManager.total_limit (NoLimit for None)
    redis_client,       \* EnhancedQueueManager.redis_client: TRUE for connected
    status_callbacks,   \* EnhancedQueueManager.status_callbacks: TRUE for an observer
    available_engines,  \* keys of MultiEngineDownloader.available_engines
    redis,              \* the Redis store: item id (key "queue_item:<id>") -> JSON data
    restarts,           \* restarts of the manager process so far
    allocated,          \* BandwidthManager.allocated
    bw_active,          \* BandwidthManager.active_downloads: item id -> reserved amount
    retry_times,        \* RetryManager.retry_times: item id -> seconds left until next_retry
    queue_items,        \* every QueueItem object created so far: id -> its fields
    items,              \* keys of EnhancedQueueManager.items
    priority_queue,     \* EnhancedQueueManager.priority_queue, in the order heappop yields it
    active_downloads,   \* keys of EnhancedQueueManager.active_downloads
    stats,              \* EnhancedQueueManager.stats
    caller,             \* the worker that is inside the loop of get_next_item, or NoItem
    popped,             \* get_next_item: the item the running iteration has popped, or NoItem
    held,               \* process_queue: the item each worker is downloading, or NoItem
    child,              \* engine.download of each worker: its child process runs
    overrun,            \* seconds the child has run since its item was CANCELLED
    url_hashes,         \* DuplicateDetector.url_hashes
    notified,           \* what the observer has been told: item id -> statuses seen
    pending_notify,     \* items whose handler awaits the Redis save before it notifies
    user_ops,           \* user commands issued so far
    max_history,        \* EventBus.max_history
    handlers,           \* EventBus.handlers: event type -> handlers in subscription order
    wildcard_handlers,  \* EventBus.wildcard_handlers
    filters,            \* EventBus.filters
    websocket_connections, \* EventBus.websocket_connections
    events,             \* every Event object constructed by publish, in publish order
    phase,              \* how far the publish call of each event has come
    unfinished,         \* gather: handler tasks of each event that have not finished
    event_history,      \* EventBus.event_history (ids of the Event objects)
    bus_stats,          \* EventBus.stats
    invoked,            \* the handler invocations begun so far, in order
    ready,              \* the asyncio loop: tasks ready to run, in the order they will
    waiting,            \* the asyncio loop: tasks suspended in an await on I/O
    sending,            \* _broadcast_to_websockets: the loop of each event
    sent_text,          \* the messages send_text was called with, per connection
    rules,              \* SmartRulesEngine.rules
    statistics,         \* SmartRulesEngine.statistics (last_evaluation: evaluations so far)
    load_result,        \* what the last call of load_rules has returned
    adapter,            \* the engine adapter whose download call is followed
    progress_callback,  \* DownloadRequest.progress_callback is set
    pc,                 \* how far the download call has come
    input_file,         \* the aria2c input file of the call exists
    process,            \* the child process of the call: none, running, exited
    output,             \* what the child will still write: the stream of each chunk
    pipe,               \* chunks written to each stream of the child and not yet read
    result,             \* the status of the result the download call has returned
    rules_file          \* the rules file: its document, or NoFile

configVars ==
    <<max_concurrent, max_retries, total_limit, redis_client, status_callbacks,
      available_engines>>
notifyVars == <<notified, pending_notify>>
busConfig == <<max_history, handlers, wildcard_handlers, filters>>
loopVars == <<ready, waiting>>
queueVars == <<max_concurrent, max_retries, total_limit, redis_client,
               status_callbacks, available_engines, notified, pending_notify,
               redis, restarts, allocated, bw_active, retry_times, queue_items,
               items, priority_queue, active_downloads, stats, caller, popped,
               held, child, overrun, url_hashes, user_ops>>
rulesVars == <<rules, statistics, load_result>>
busVars == <<busConfig, websocket_connections, events, phase, unfinished,
             event_history, bus_stats, invoked, loopVars, sending, sent_text,
             rulesVars>>
procVars == <<child, overrun>>
bwVars == <<allocated, bw_active>>
adapterVars == <<adapter, progress_callback, pc, input_file, process, output, pipe,
                 result>>
fileVars == <<rules_file>>
outerVars == <<adapterVars, fileVars>>
vars == <<queueVars, busVars, outerVars>>

Created == DOMAIN queue_items

Min(a, b) == IF a <= b THEN a ELSE b

Max(S) == CHOOSE x \in S : \A y \in S : y <= x

RECURSIVE Sum(_, _)
Sum(f, S) == IF S = {} THEN 0
             ELSE LET x == CHOOSE y \in S : TRUE IN f[x] + Sum(f, S \ {x})

RECURSIVE Pow2(_)
Pow2(n) == IF n = 0 THEN 1 ELSE 2 * Pow2(n - 1)

\* ------------------------------------------------------------------ URLs
\* A URL "https://<host>/<path>?<key>=<value>&<key>=<value>...": the host, the
\* path (a number) and the query parameters in their order.
Url(host, path, query) == [host |-> host, path |-> path, query |-> query]

Param(key, value) == [key |-> key, value |-> value]

\* the URL of the n-th item of a run in which every URL is a new one
NewUrl(n) == Url("youtube.com", n, <<>>)

\* URLs a user submits more than once, in one spelling or another
PlainUrl == Url("host.example", 1, <<>>)
TrackedUrl == Url("host.example", 1, <<Param("utm_source", "x")>>)
ReferredUrl == Url("host.example", 1, <<Param("ref", "x")>>)
ShoutedUrl == Url("HOST.example", 1, <<>>)
UrlChoices == {PlainUrl, TrackedUrl, ReferredUrl, ShoutedUrl}

\* URLs of sites the engines know, and of one they do not
YoutubeUrl == Url("youtube.com", 1, <<>>)
TwitchUrl == Url("twitch.tv", 1, <<>>)
TwitterUrl == Url("twitter.com", 1, <<>>)
ImgurUrl == Url("imgur.com", 1, <<>>)
EngineUrls == {YoutubeUrl, TwitchUrl, TwitterUrl, ImgurUrl, PlainUrl}

\* str.lower(), on the strings URLs are made of here
Lower(str) == IF str = "HOST.example" THEN "host.example" ELSE str

\* the text of the URL cut at its separators: every query parameter with the
\* "?" or "&" in front of it
UrlParts(url) ==
    [k \in 1..Len(url.query) |->
        [sep |-> IF k = 1 THEN "?" ELSE "&",
         key |-> url.query[k].key, value |-> url.query[k].value]]

\* ------------------------------------------------------------ QueueItem
\* The item add_item constructs (status PENDING, retry_count 0, started_at
\* and completed_at None); engine_type is download_options['engine_type'].
QueueItem(url, p, stamp, engine_type) ==
    [url |-> url, status |-> PENDING, priority |-> p, created_at |-> stamp,
     retry_count |-> 0, started_at |-> 0, completed_at |-> 0,
     engine_type |-> engine_type]

\* QueueItem.__lt__: higher priority first, FIFO within a priority.
QueueItemLtReversed(self, other) ==
    IF self.priority # other.priority
    THEN self.priority < other.priority
    ELSE self.created_at < other.created_at

QueueItemLt(self, other) ==
    IF self.priority # other.priority
    THEN self.priority > other.priority
    ELSE self.created_at < other.created_at

\* heapq.heappush on the queue kept in pop order: x goes in front of the first
\* entry it is smaller than (entries of one item are interchangeable).
\* objs gives the item object of every id.
RECURSIVE heappush(_, _, _)
heappush(objs, q, x) ==
    IF q = <<>> THEN <<x>>
    ELSE IF QueueItemLt(objs[x], objs[Head(q)]) THEN <<x>> \o q
    ELSE <<Head(q)>> \o heappush(objs, Tail(q), x)

\* ------------------------------------------------------ BandwidthManager
can_allocateNoCheck(item_id, requested) == TRUE

can_allocate(item_id, requested) ==
    IF total_limit = NoLimit THEN TRUE
    ELSE LET current_usage ==
                 allocated - (IF item_id \in DOMAIN bw_active THEN bw_active[item_id] ELSE 0)
         IN  current_usage + requested <= total_limit

LedgerSum(ledger) == Sum(ledger, DOMAIN ledger)

\* the ledger after allocate(item_id, amount)
allocate(item_id, amount) ==
    IF can_allocate(item_id, amount)
    THEN [i \in DOMAIN bw_active \cup {item_id} |->
             IF i = item_id THEN amount ELSE bw_active[i]]
    ELSE bw_active

\* the ledger after release(item_id)
release(item_id) ==
    [i \in DOMAIN bw_active \ {item_id} |-> bw_active[i]]

\* item.bandwidth_limit or 1024 * 1024: add_item leaves bandwidth_limit unset
bandwidth_needed(item_id) == DefaultBandwidth

\* ------------------------------------------------------ DuplicateDetector
\* re.sub(r'[?&](utm_|ref|source)=[^&]*', '', url.lower()): the pattern takes
\* out a parameter, with the separator in front of it, when its key is the
\* whole of "utm_", "ref" or "source" (the key is followed by "=" at once).
\* md5 of the text that is left is kept as that text.
hash_url(url) ==
    [host |-> Lower(url.host), path |-> url.path,
     parts |-> SelectSeq([k \in 1..Len(url.query) |->
                             [sep |-> UrlParts(url)[k].sep,
                              key |-> Lower(UrlParts(url)[k].key),
                              value |-> Lower(UrlParts(url)[k].value)]],
                         LAMBDA part : part.key \notin {"utm_", "ref", "source"})]

is_duplicate_urlNever(url) == FALSE

is_duplicate_url(url) == hash_url(url) \in url_hashes

\* ---------------------------------------------------------- RetryManager
should_retry(item_id) ==
    IF queue_items[item_id].retry_count >= max_retries THEN FALSE
    ELSE IF item_id \in DOMAIN retry_times THEN retry_times[item_id] = 0
    ELSE TRUE

\* delay of schedule_retry, in seconds
RetryDelay(item_id) ==
    Min(base_delay * Pow2(queue_items[item_id].retry_count), max_delay)

\* ------------------------------------------------------ Redis persistence
\* JSON values: a number, a string, null.  The ISO-8601 text of an instant is
\* a string that is kept by the instant it spells.
JsonInt(n) == [type |-> "int", num |-> n, text |-> ""]
JsonStr(str) == [type |-> "str", num |-> 0, text |-> str]
JsonNull == [type |-> "null", num |-> 0, text |-> ""]
isoformat(instant) == [type |-> "str", num |-> instant, text |-> "iso"]
fromisoformat(json) == json.num

\* str(member) of the two enums, which json.dumps(data, default=str) writes
\* for the members that asdict leaves in the data
StrQueuePriority(p) ==
    CASE p = LOW -> "QueuePriority.LOW"
      [] p = NORMAL -> "QueuePriority.NORMAL"
      [] p = HIGH -> "QueuePriority.HIGH"
      [] p = URGENT -> "QueuePriority.URGENT"

StrQueueStatus(status) ==
    CASE status = PENDING -> "QueueStatus.PENDING"
      [] status = DOWNLOADING -> "QueueStatus.DOWNLOADING"
      [] status = COMPLETED -> "QueueStatus.COMPLETED"
      [] status = FAILED -> "QueueStatus.FAILED"
      [] status = RETRYING -> "QueueStatus.RETRYING"
      [] status = CANCELLED -> "QueueStatus.CANCELLED"
      [] status = PAUSED -> "QueueStatus.PAUSED"

\* value.isoformat() for a datetime, None (null) left as it is
JsonInstant(instant) == IF instant = 0 THEN JsonNull ELSE isoformat(instant)

\* the data _save_item_to_redis stores for an item
item_to_json(item) ==
    [url |-> item.url,
     priority |-> JsonStr(StrQueuePriority(item.priority)),
     status |-> JsonStr(StrQueueStatus(item.status)),
     created_at |-> JsonInstant(item.created_at),
     started_at |-> JsonInstant(item.started_at),
     completed_at |-> JsonInstant(item.completed_at),
     retry_count |-> JsonInt(item.retry_count),
     engine_type |-> JsonStr(item.engine_type)]

\* QueuePriority(value) and QueueStatus(value) find a member by its value
\* and raise ValueError when there is none
IsQueuePriorityValue(json) ==
    json.type = "int" /\ json.num \in {LOW, NORMAL, HIGH, URGENT}

IsQueueStatusValue(json) == json.type = "str" /\ json.text \in QueueStatus

\* the conversions of _load_from_redis raise no exception on this data
Loadable(data) == IsQueuePriorityValue(data.priority) /\ IsQueueStatusValue(data.status)

\* item_data.get(key) is truthy: fromisoformat is applied
LoadInstant(json) == IF json.type = "null" THEN 0 ELSE fromisoformat(json)

\* the QueueItem _load_from_redis constructs from loadable data
item_from_json(data) ==
    [url |-> data.url, status |-> data.status.text, priority |-> data.priority.num,
     created_at |-> LoadInstant(data.created_at), retry_count |-> data.retry_count.num,
     started_at |-> LoadInstant(data.started_at),
     completed_at |-> LoadInstant(data.completed_at),
     engine_type |-> data.engine_type.text]

\* the store after _save_item_to_redis for the item as objs holds it
save_item_to_redis(objs, item_id) ==
    IF redis_client
    THEN [k \in DOMAIN redis \cup {item_id} |->
             IF k = item_id THEN item_to_json(objs[item_id]) ELSE redis[k]]
    ELSE redis

\* heappush of every item of the set S
RECURSIVE PushAll(_, _, _)
PushAll(objs, q, S) ==
    IF S = {} THEN q
    ELSE LET x == CHOOSE y \in S : TRUE IN PushAll(objs, heappush(objs, q, x), S \ {x})

\* ----------------------------------------------------------------- Init
\* The state __init__ leaves behind, whatever the configuration: nothing
\* stored, nothing queued, no worker at work.
Constructed ==
    /\ redis = <<>>
    /\ restarts = 0
    /\ allocated = 0
    /\ bw_active = <<>>
    /\ retry_times = <<>>
    /\ queue_items = <<>>
    /\ items = {}
    /\ priority_queue = <<>>
    /\ active_downloads = {}
    /\ stats = [total_added |-> 0, total_completed |-> 0, total_failed |-> 0,
                duplicates_skipped |-> 0]
    /\ url_hashes = {}
    /\ notified = <<>>
    /\ pending_notify = <<>>
    /\ caller = NoItem
    /\ popped = NoItem
    /\ held = [w \in Workers |-> NoItem]
    /\ child = [w \in Workers |-> FALSE]
    /\ overrun = [w \in Workers |-> 0]
    /\ user_ops = 0
    /\ events = <<>>
    /\ phase = [e \in 1..MaxEvents |-> "none"]
    /\ unfinished = [e \in 1..MaxEvents |-> 0]
    /\ event_history = <<>>
    /\ bus_stats = [events_published |-> 0, events_handled |-> 0,
                    handler_errors |-> 0]
    /\ invoked = <<>>
    /\ ready = <<>>
    /\ waiting = {}
    /\ sending = <<>>
    /\ sent_text = [ws \in Sockets |-> <<>>]
    /\ rules = <<>>
    /\ statistics = [rules_triggered |-> 0, actions_executed |-> 0,
                     last_evaluation |-> 0]
    /\ load_result = "none"
    /\ adapter = NoEngine
    /\ progress_callback = FALSE
    /\ pc = "idle"
    /\ input_file = FALSE
    /\ process = "none"
    /\ output = <<>>
    /\ pipe = [stream \in Streams |-> 0]
    /\ result = "none"
    /\ rules_file = NoFile

\* An event bus as EventBus() constructs it, that nobody has subscribed to.
NoBus ==
    /\ max_history = DefaultMaxHistory
    /\ handlers = [type \in EventType |-> <<>>]
    /\ wildcard_handlers = <<>>
    /\ filters = <<>>
    /\ websocket_connections = {}

\* Init: a manager without Redis (redis_url None, the default), on a machine
\* where the binaries of all four engines are installed.
Init ==
    /\ max_concurrent \in MaxConcurrentChoices
    /\ max_retries \in MaxRetriesChoices
    /\ total_limit \in TotalLimitChoices
    /\ redis_client = FALSE
    /\ status_callbacks = FALSE
    /\ NoBus
    /\ available_engines = Engines
    /\ Constructed

\* -------------------------------------------------------------- add_item
\* add_item(url, priority, skip_duplicates).  A new item object gets the next
\* id and the next creation stamp.
\* the id of the next item: ids are never used twice
NewId == Max(Created \cup DOMAIN redis \cup {0}) + 1

\* _notify_status_change(item): every registered callback is called with the
\* item object, and reads the status the object has at that moment.
notify_status_change(item_id, objs) ==
    IF status_callbacks
    THEN [i \in DOMAIN notified \cup {item_id} |->
             IF i = item_id
             THEN Append(IF i \in DOMAIN notified THEN notified[i] ELSE <<>>,
                         objs[i].status)
             ELSE notified[i]]
    ELSE notified

\* "await self._save_item_to_redis(item)" and then
\* "self._notify_status_change(item)".  Without a Redis client the save
\* returns at once and the notification belongs to the same step; with one,
\* the handler is suspended until Redis has answered and the rest of the
\* program runs meanwhile.
SaveThenNotify(item_id) ==
    /\ redis' = save_item_to_redis(queue_items', item_id)
    /\ IF redis_client /\ status_callbacks
       THEN /\ pending_notify' = Append(pending_notify, item_id)
            /\ UNCHANGED notified
       ELSE /\ notified' = notify_status_change(item_id, queue_items')
            /\ UNCHANGED pending_notify

\* Redis has answered the oldest save: its handler resumes and notifies.
SaveReturns ==
    /\ caller = NoItem
    /\ pending_notify # <<>>
    /\ notified' = notify_status_change(Head(pending_notify), queue_items)
    /\ pending_notify' = Tail(pending_notify)
    /\ UNCHANGED <<configVars, busVars, outerVars, procVars, url_hashes, redis, restarts, bwVars,
                   retry_times, queue_items, items, priority_queue,
                   active_downloads, stats, caller, popped, held, user_ops>>

add_item(url, p, skip_duplicates, engine_type) ==
    IF skip_duplicates /\ is_duplicate_url(url)
    THEN \* return None
         /\ stats' = [stats EXCEPT !.duplicates_skipped = @ + 1]
         /\ UNCHANGED <<queue_items, priority_queue, items, url_hashes, redis,
                        notifyVars>>
    ELSE LET item_id == NewId IN
         /\ queue_items' =
               queue_items @@ (item_id :> QueueItem(url, p, item_id, engine_type))
         /\ priority_queue' = heappush(queue_items', priority_queue, item_id)
         /\ items' = items \cup {item_id}
         /\ url_hashes' = url_hashes \cup {hash_url(url)}
         /\ stats' = [stats EXCEPT !.total_added = @ + 1]
         /\ SaveThenNotify(item_id)

\* add_item for a URL that has not been submitted before.
AddItem(p) ==
    /\ caller = NoItem
    /\ NewId <= MaxItems
    /\ add_item(NewUrl(NewId), p, TRUE, NoOption)
    /\ UNCHANGED <<configVars, busVars, outerVars, procVars, restarts, bwVars, retry_times,
                   active_downloads, caller, popped, held, user_ops>>

\* add_item for any URL of UrlChoices, which may have been submitted before.
AddUrl(url, p, skip_duplicates) ==
    /\ caller = NoItem
    /\ NewId <= MaxItems
    /\ stats.duplicates_skipped < MaxSkips
    /\ add_item(url, p, skip_duplicates, NoOption)
    /\ UNCHANGED <<configVars, busVars, outerVars, procVars, restarts, bwVars, retry_times,
                   active_downloads, caller, popped, held, user_ops>>

\* --------------------------------------------------------- get_next_item
\* len(self.active_downloads) >= self.max_concurrent
SlotsFullOffByOne == Cardinality(active_downloads) > max_concurrent

SlotsFull == Cardinality(active_downloads) >= max_concurrent

\* Entry of get_next_item, called by process_queue of worker w.  With no free
\* slot it returns None at once (process_queue breaks; nothing changes).
GetNextBegin(w) ==
    /\ caller = NoItem
    /\ held[w] = NoItem
    /\ IF SlotsFull
       THEN UNCHANGED caller
       ELSE caller' = w
    /\ UNCHANGED <<configVars, busVars, outerVars, procVars, notifyVars, url_hashes, redis,
                   restarts, bwVars, retry_times, queue_items, items,
                   priority_queue, active_downloads, stats, popped, held,
                   user_ops>>

\* "while self.priority_queue: item = heapq.heappop(self.priority_queue)".
\* The loop has no await, so nothing else of the program runs before the call
\* returns.
GetNextPop(w) ==
    /\ caller = w
    /\ popped = NoItem
    /\ IF priority_queue = <<>>
       THEN \* loop exit: return None
            /\ caller' = NoItem
            /\ UNCHANGED <<priority_queue, popped>>
       ELSE /\ popped' = Head(priority_queue)
            /\ priority_queue' = Tail(priority_queue)
            /\ UNCHANGED caller
    /\ UNCHANGED <<configVars, busVars, outerVars, procVars, notifyVars, url_hashes, redis,
                   restarts, bwVars, retry_times, queue_items, items,
                   active_downloads, stats, held, user_ops>>

\* The rest of the iteration, for the popped item.
GetNextCheck(w) ==
    /\ caller = w
    /\ popped # NoItem
    /\ popped' = NoItem
    /\ LET item == popped IN
       IF item \notin items \/ item \in active_downloads
       THEN \* removed or already active: continue
            UNCHANGED <<caller, bwVars, queue_items, priority_queue, active_downloads,
                        held, redis, notifyVars>>
       ELSE IF queue_items[item].status = RETRYING /\ ~should_retry(item)
       THEN \* put back in queue for later, continue
            /\ priority_queue' = heappush(queue_items, priority_queue, item)
            /\ UNCHANGED <<caller, bwVars, queue_items, active_downloads, held, redis,
                           notifyVars>>
       ELSE IF ~can_allocate(item, bandwidth_needed(item))
       THEN \* put back in queue, return None
            /\ priority_queue' = heappush(queue_items, priority_queue, item)
            /\ caller' = NoItem
            /\ UNCHANGED <<bwVars, queue_items, active_downloads, held, redis,
                           notifyVars>>
       ELSE \* allocate bandwidth, mark as active, return item
            /\ bw_active' = allocate(item, bandwidth_needed(item))
            /\ allocated' = IF can_allocate(item, bandwidth_needed(item))
                            THEN LedgerSum(bw_active') ELSE allocated
            /\ active_downloads' = active_downloads \cup {item}
            /\ queue_items' = [queue_items EXCEPT ![item].status = DOWNLOADING,
                                                  ![item].started_at = @ + 1]
            /\ SaveThenNotify(item)
            /\ held' = [held EXCEPT ![w] = item]
            /\ caller' = NoItem
            /\ UNCHANGED priority_queue
    /\ UNCHANGED <<configVars, busVars, outerVars, procVars, url_hashes, restarts, retry_times,
                   items, stats, user_ops>>

\* --------------------------------------------------------- complete_item
\* complete_item(item_id, success), as the manager runs it for any caller.
complete_item(item_id, success) ==
    IF item_id \notin items
    THEN UNCHANGED <<bwVars, retry_times, queue_items, priority_queue,
                     active_downloads, stats, redis, notifyVars>>
    ELSE
        /\ bw_active' = release(item_id)
        /\ allocated' = IF item_id \in DOMAIN bw_active
                        THEN LedgerSum(bw_active') ELSE allocated
        /\ active_downloads' = active_downloads \ {item_id}
        /\ IF success
           THEN /\ queue_items' = [queue_items EXCEPT ![item_id].status = COMPLETED,
                                                      ![item_id].completed_at = @ + 1]
                /\ stats' = [stats EXCEPT !.total_completed = @ + 1]
                /\ UNCHANGED <<retry_times, priority_queue>>
           ELSE IF should_retry(item_id)
           THEN \* schedule_retry, then put back in queue
                /\ retry_times' = [i \in DOMAIN retry_times \cup {item_id} |->
                                      IF i = item_id THEN RetryDelay(item_id)
                                      ELSE retry_times[i]]
                /\ queue_items' = [queue_items EXCEPT
                                      ![item_id].retry_count = @ + 1,
                                      ![item_id].status = RETRYING]
                /\ priority_queue' = heappush(queue_items', priority_queue, item_id)
                /\ UNCHANGED stats
           ELSE /\ queue_items' = [queue_items EXCEPT ![item_id].status = FAILED]
                /\ stats' = [stats EXCEPT !.total_failed = @ + 1]
                /\ UNCHANGED <<retry_times, priority_queue>>
        /\ SaveThenNotify(item_id)

\* process_queue: the download of worker w ends (result success or error, or
\* an exception) and the worker reports it for the item it was handed.
CompleteItem(w, success) ==
    /\ caller = NoItem
    /\ held[w] # NoItem
    /\ complete_item(held[w], success)
    /\ held' = [held EXCEPT ![w] = NoItem]
    /\ UNCHANGED <<configVars, busVars, outerVars, procVars, url_hashes, restarts, items, caller,
                   popped, user_ops>>

\* ---------------------------------------------------------------- engines
\* can_handle: re.search of the engine's site patterns in the URL, ignoring
\* case.  The URLs of this model carry a site name in the host only, and none
\* has the path /watch of the YouTube live pattern of streamlink.
SitePatterns(engine) ==
    CASE engine = YT_DLP_ARIA2 ->
            {"youtube.com", "youtu.be", "vimeo.com", "dailymotion.com", "twitch.tv",
             "facebook.com", "tiktok.com", "twitter.com", "x.com"}
      [] engine = STREAMLINK ->
            {"twitch.tv", "kick.com", "afreecatv.com", "douyu.com", "huya.com"}
      [] engine = GALLERY_DL ->
            {"instagram.com", "reddit.com", "twitter.com", "x.com", "pinterest.com",
             "tumblr.com", "pixiv.net", "deviantart.com", "artstation.com"}
      [] engine = RIPME ->
            {"imgur.com", "8muses.com", "motherless.com", "xhamster.com",
             "imagefap.com"}

can_handle(engine, url) == Lower(url.host) \in SitePatterns(engine)

\* select_engine: specialized tools first, then general purpose
priority_order == <<STREAMLINK, GALLERY_DL, RIPME, YT_DLP_ARIA2>>

\* select_engine(url, preferred): the engine type selected, or NoEngine
select_engineAutoOnly(url, preferred) ==
    LET able == {k \in 1..Len(priority_order) :
                    /\ priority_order[k] \in available_engines
                    /\ can_handle(priority_order[k], url)}
    IN  IF able = {} THEN NoEngine
        ELSE priority_order[CHOOSE k \in able : \A j \in able : k <= j]

select_engine(url, preferred) ==
    IF preferred # AUTO /\ preferred \in available_engines /\ can_handle(preferred, url)
    THEN preferred
    ELSE LET able == {k \in 1..Len(priority_order) :
                         /\ priority_order[k] \in available_engines
                         /\ can_handle(priority_order[k], url)}
         IN  IF able = {} THEN NoEngine
             ELSE priority_order[CHOOSE k \in able : \A j \in able : k <= j]

\* selected_engine.__class__.__name__
ClassName(engine) ==
    CASE engine = YT_DLP_ARIA2 -> "YtDlpAria2Engine"
      [] engine = STREAMLINK -> "StreamlinkEngine"
      [] engine = GALLERY_DL -> "GalleryDlEngine"
      [] engine = RIPME -> "RipmeEngine"

\* _get_engine_type_from_name
get_engine_type_from_name(engine_name) ==
    CASE engine_name = "YtDlpAria2Engine" -> YT_DLP_ARIA2
      [] engine_name = "StreamlinkEngine" -> STREAMLINK
      [] engine_name = "GalleryDlEngine" -> GALLERY_DL
      [] engine_name = "RipmeEngine" -> RIPME
      [] OTHER -> AUTO

\* item.download_options.get('engine_type', 'YtDlpAria2Engine')
EngineTypeOption(item) ==
    IF item.engine_type = NoOption THEN "YtDlpAria2Engine" ELSE item.engine_type

\* add_to_queue(url, priority, preferred_engine), preferred AUTO for None as
\* well: without a suitable engine it returns None and nothing is added.
AddToQueue(url, p, preferred) ==
    /\ caller = NoItem
    /\ NewId <= MaxItems
    /\ stats.duplicates_skipped < MaxSkips
    /\ LET selected_engine == select_engine(url, preferred) IN
       IF selected_engine = NoEngine
       THEN UNCHANGED <<queue_items, priority_queue, items, url_hashes, stats, redis,
                        notifyVars>>
       ELSE add_item(url, p, TRUE, ClassName(selected_engine))
    /\ UNCHANGED <<configVars, busVars, outerVars, procVars, restarts, bwVars, retry_times,
                   active_downloads, caller, popped, held, user_ops>>

\* The result engine.download returns once its child process has ended with
\* the given return code: after process.wait() every engine returns status
\* success.
EngineResult(returncode) == "success"

\* process_queue, from the item handed out to the start of the child process:
\* multi_engine.download selects the engine again; without an engine, or when
\* the engine raises before its child runs (the binary cannot be started,
\* yt-dlp yields no direct URL), the result is an error and the worker
\* reports the failure at once.
StartDownload(w, raises) ==
    /\ caller = NoItem
    /\ held[w] # NoItem
    /\ ~child[w]
    /\ LET item == queue_items[held[w]]
           engine == select_engine(item.url,
                                   get_engine_type_from_name(EngineTypeOption(item)))
       IN  IF engine = NoEngine \/ raises
           THEN /\ complete_item(held[w], FALSE)
                /\ held' = [held EXCEPT ![w] = NoItem]
                /\ UNCHANGED child
           ELSE /\ child' = [child EXCEPT ![w] = TRUE]
                /\ UNCHANGED <<held, bwVars, retry_times, queue_items, priority_queue,
                               active_downloads, stats, redis, notifyVars>>
    /\ UNCHANGED <<configVars, busVars, outerVars, overrun, url_hashes, restarts, items, caller,
                   popped, user_ops>>

\* The child process of worker w ends with the given return code; the engine
\* returns its result and the worker reports it.
ChildExits(w, returncode) ==
    /\ caller = NoItem
    /\ child[w]
    /\ complete_item(held[w], EngineResult(returncode) = "success")
    /\ held' = [held EXCEPT ![w] = NoItem]
    /\ child' = [child EXCEPT ![w] = FALSE]
    /\ overrun' = [overrun EXCEPT ![w] = 0]
    /\ UNCHANGED <<configVars, busVars, outerVars, url_hashes, restarts, items, caller, popped,
                   user_ops>>

\* ------------------------------------------------------------ user commands
\* For an id that is not in self.items the three commands do nothing.
CancelItem(item_id) ==
    /\ caller = NoItem
    /\ user_ops < MaxUserOps
    /\ item_id \in items
    /\ user_ops' = user_ops + 1
    /\ IF item_id \in active_downloads
       THEN /\ bw_active' = release(item_id)
            /\ allocated' = IF item_id \in DOMAIN bw_active
                            THEN LedgerSum(bw_active') ELSE allocated
            /\ active_downloads' = active_downloads \ {item_id}
       ELSE UNCHANGED <<bwVars, active_downloads>>
    /\ queue_items' = [queue_items EXCEPT ![item_id].status = CANCELLED,
                                          ![item_id].completed_at = @ + 1]
    /\ SaveThenNotify(item_id)
    /\ UNCHANGED <<configVars, busVars, outerVars, procVars, url_hashes, restarts, retry_times,
                   items, priority_queue, stats, caller, popped, held>>

PauseItem(item_id) ==
    /\ caller = NoItem
    /\ user_ops < MaxUserOps
    /\ item_id \in items
    /\ user_ops' = user_ops + 1
    /\ queue_items' = [queue_items EXCEPT ![item_id].status = PAUSED]
    /\ notified' = notify_status_change(item_id, queue_items')
    /\ UNCHANGED <<configVars, busVars, outerVars, procVars, url_hashes, redis, restarts, bwVars,
                   retry_times, items, priority_queue, active_downloads, stats,
                   caller, popped, held, pending_notify>>

ResumeItem(item_id) ==
    /\ caller = NoItem
    /\ user_ops < MaxUserOps
    /\ item_id \in items
    /\ user_ops' = user_ops + 1
    /\ IF queue_items[item_id].status = PAUSED
       THEN /\ queue_items' = [queue_items EXCEPT ![item_id].status = PENDING]
            /\ priority_queue' = heappush(queue_items', priority_queue, item_id)
            /\ notified' = notify_status_change(item_id, queue_items')
       ELSE UNCHANGED <<queue_items, priority_queue, notified>>
    /\ UNCHANGED <<configVars, busVars, outerVars, procVars, url_hashes, redis, restarts, bwVars,
                   retry_times, items, active_downloads, stats, caller, popped,
                   held, pending_notify>>

ClearCompleted ==
    /\ caller = NoItem
    /\ user_ops < MaxUserOps
    /\ user_ops' = user_ops + 1
    /\ items' = {i \in items : queue_items[i].status \notin Terminal}
    /\ redis' = IF redis_client
                THEN [k \in DOMAIN redis \ (items \ items') |-> redis[k]]
                ELSE redis
    /\ UNCHANGED <<configVars, busVars, outerVars, procVars, notifyVars, url_hashes, restarts,
                   bwVars, retry_times, queue_items, priority_queue,
                   active_downloads, stats, caller, popped, held>>

\* --------------------------------------------------------------- restart
\* The process ends (with it the workers and everything in memory) and a new
\* manager is constructed with the same configuration and initialised:
\* initialize() calls _load_from_redis when there is a Redis client.  The
\* loop over the keys ends at the first key whose data raises an exception
\* (caught around the loop); Redis yields the keys in any order, so any of
\* the loadable items may have been loaded by then.
Restart ==
    /\ restarts < MaxRestarts
    /\ restarts' = restarts + 1
    /\ LET good == {k \in DOMAIN redis : Loadable(redis[k])} IN
       \E loaded \in SUBSET good :
          /\ good = DOMAIN redis => loaded = good
          /\ ~redis_client => loaded = {}
          /\ queue_items' = [k \in loaded |-> item_from_json(redis[k])]
          /\ items' = loaded
          /\ priority_queue' =
                 PushAll(queue_items', <<>>,
                         {k \in loaded : queue_items'[k].status = PENDING})
          /\ active_downloads' = {k \in loaded : queue_items'[k].status = DOWNLOADING}
    /\ allocated' = 0
    /\ bw_active' = <<>>
    /\ retry_times' = <<>>
    /\ stats' = [total_added |-> 0, total_completed |-> 0, total_failed |-> 0,
                 duplicates_skipped |-> 0]
    /\ url_hashes' = {}
    /\ notified' = <<>>
    /\ pending_notify' = <<>>
    /\ caller' = NoItem
    /\ popped' = NoItem
    /\ held' = [w \in Workers |-> NoItem]
    /\ child' = [w \in Workers |-> FALSE]
    /\ overrun' = [w \in Workers |-> 0]
    /\ UNCHANGED <<configVars, busVars, outerVars, redis, user_ops>>

\* ------------------------------------------------------------------ time
\* One second of wall clock passes: every pending retry instant comes closer,
\* and a child process that runs for a CANCELLED item has run a second longer.
Tick ==
    /\ retry_times' = [i \in DOMAIN retry_times |->
                          IF retry_times[i] > 0 THEN retry_times[i] - 1 ELSE 0]
    /\ overrun' = [w \in Workers |->
                      IF child[w] /\ queue_items[held[w]].status = CANCELLED
                      THEN Min(overrun[w] + 1, MaxOverrun) ELSE overrun[w]]
    /\ UNCHANGED <<configVars, busVars, outerVars, notifyVars, child, url_hashes, redis, restarts,
                   bwVars, queue_items, items, priority_queue, active_downloads,
                   stats, caller, popped, held, user_ops>>

\* ----------------------------------------------------------- rules engine
\* RuleCondition.evaluate for a condition on the URL: the value of the
\* context under 'url', compared as _compare_values does for CONTAINS (the
\* expected text occurs in the actual one, both in lower case unless
\* case_sensitive).  The texts of this model are host names.  Any other
\* condition of this model finds no value in the context and is false.
evaluate(condition, context) ==
    /\ condition.condition_type = URL_PATTERN
    /\ condition.operator = CONTAINS
    /\ Lower(condition.value) = Lower(context.url.host)

\* Rule.matches
matchesThoughDisabled(rule, context) ==
    /\ rule.conditions # <<>>
    /\ IF rule.condition_logic = "OR"
       THEN \E k \in DOMAIN rule.conditions : evaluate(rule.conditions[k], context)
       ELSE \A k \in DOMAIN rule.conditions : evaluate(rule.conditions[k], context)

matches(rule, context) ==
    /\ rule.enabled
    /\ rule.conditions # <<>>
    /\ IF rule.condition_logic = "OR"
       THEN \E k \in DOMAIN rule.conditions : evaluate(rule.conditions[k], context)
       ELSE \A k \in DOMAIN rule.conditions : evaluate(rule.conditions[k], context)

\* evaluate_rules(trigger_event, context): every rule that matches has its
\* actions executed and its trigger statistics updated (execute_actions).
\* The rules are visited by descending priority in a sorted copy of the
\* list.  RuleAction.execute has no effect: every _execute_<action_type> of
\* the engine awaits self.event_bus.emit(...) when the context names a
\* download, and EventBus has no method emit, so the AttributeError is
\* caught and the result is False (as it is without a download_id); nothing
\* is published, no component is told, and the coroutine is never suspended.
evaluate_rules(context) ==
    LET now == statistics.last_evaluation + 1
        triggered == {k \in DOMAIN rules : matches(rules[k], context)}
    IN  /\ rules' = [k \in DOMAIN rules |->
                        IF k \in triggered
                        THEN [rules[k] EXCEPT !.last_triggered = now,
                                              !.trigger_count = @ + 1]
                        ELSE rules[k]]
        /\ UNCHANGED load_result
        /\ statistics' =
              [rules_triggered |-> statistics.rules_triggered
                                   + Cardinality(triggered),
               actions_executed |-> statistics.actions_executed
                                    + Sum([k \in triggered |->
                                              Len(rules[k].actions)], triggered),
               last_evaluation |-> now]

\* add_rule(rule): a rule whose id is taken is turned away.
AddRule(rule) ==
    /\ caller = NoItem
    /\ rules' = IF \E k \in DOMAIN rules : rules[k].id = rule.id
                THEN rules
                ELSE Append(rules, rule)
    /\ UNCHANGED <<busConfig, websocket_connections, events, phase, unfinished,
                   event_history, bus_stats, invoked, loopVars, sending, sent_text,
                   statistics, load_result, queueVars, outerVars>>

\* enable_rule(rule_id) and disable_rule(rule_id)
SetEnabled(rule_id, enabled) ==
    /\ caller = NoItem
    /\ rules' = [k \in DOMAIN rules |->
                    IF /\ rules[k].id = rule_id
                       /\ \A j \in 1..(k - 1) : rules[j].id # rule_id
                    THEN [rules[k] EXCEPT !.enabled = enabled]
                    ELSE rules[k]]
    /\ UNCHANGED <<busConfig, websocket_connections, events, phase, unfinished,
                   event_history, bus_stats, invoked, loopVars, sending, sent_text,
                   statistics, load_result, queueVars, outerVars>>

\* remove_rule(rule_id): every rule with the id goes
RemoveRule(rule_id) ==
    /\ caller = NoItem
    /\ rules' = SelectSeq(rules, LAMBDA r : r.id # rule_id)
    /\ UNCHANGED <<busConfig, websocket_connections, events, phase, unfinished,
                   event_history, bus_stats, invoked, loopVars, sending, sent_text,
                   statistics, load_result, queueVars, outerVars>>

\* update_rule(rule_id, updated_rule): the first rule with the id is replaced
\* by the rule given, whatever the id of that rule
UpdateRule(rule_id, updated_rule) ==
    /\ caller = NoItem
    /\ rules' = [k \in DOMAIN rules |->
                    IF /\ rules[k].id = rule_id
                       /\ \A j \in 1..(k - 1) : rules[j].id # rule_id
                    THEN updated_rule
                    ELSE rules[k]]
    /\ UNCHANGED <<busConfig, websocket_connections, events, phase, unfinished,
                   event_history, bus_stats, invoked, loopVars, sending, sent_text,
                   statistics, load_result, queueVars, outerVars>>

\* The Rule load_rules constructs from an entry of the document.
RuleOf(rule_dict) ==
    [id |-> rule_dict.id,
     conditions |-> rule_dict.conditions,
     actions |-> rule_dict.actions,
     enabled |-> rule_dict.enabled,
     priority |-> rule_dict.priority,
     condition_logic |-> rule_dict.condition_logic,
     last_triggered |-> 0,
     trigger_count |-> rule_dict.trigger_count]

\* RuleConditionType(...), ComparisonOperator(...) and RuleActionType(...)
\* accept the tags of the entry (a tag that is not a value of the enum
\* raises ValueError).
Parses(rule_dict) ==
    /\ \A k \in DOMAIN rule_dict.conditions :
          /\ rule_dict.conditions[k].condition_type \in RuleConditionType
          /\ rule_dict.conditions[k].operator \in ComparisonOperator
    /\ \A k \in DOMAIN rule_dict.actions :
          rule_dict.actions[k].action_type \in RuleActionType

\* load_rules(file_path) for a file that holds the document: the whole
\* document is parsed inside one try, and self.rules is assigned after the
\* last entry; an exception on the way leaves the rules as they were and
\* the result is False.
load_rules(rules_data) ==
    IF \A k \in DOMAIN rules_data : Parses(rules_data[k])
    THEN [k \in DOMAIN rules_data |-> RuleOf(rules_data[k])]
    ELSE rules

LoadRules(rules_data) ==
    /\ caller = NoItem
    /\ rules' = load_rules(rules_data)
    /\ load_result' = IF \A k \in DOMAIN rules_data : Parses(rules_data[k])
                      THEN "True" ELSE "False"
    /\ UNCHANGED <<busConfig, websocket_connections, events, phase, unfinished,
                   event_history, bus_stats, invoked, loopVars, sending, sent_text,
                   statistics, queueVars, outerVars>>

\* -------------------------------------------------------------- event bus
\* Event.data of this model: the value type of each key (the values of the
\* keys url and download_id are the fields url and download_id of the event).
QueuedData == [url |-> "str"]

EventData(download_id) ==
    IF download_id = NoItem
    THEN QueuedData
    ELSE [url |-> "str", download_id |-> "str"]

\* evaluate_rules(trigger_event, context), called by the rules engine's
\* handlers with context = event.data (the dict object of the event):
\* "context['trigger_event'] = trigger_event" and
\* "context['timestamp'] = datetime.now()".
evaluate_rules_context(context) ==
    [k \in DOMAIN context \cup {"trigger_event", "timestamp"} |->
        CASE k = "trigger_event" -> "str"
          [] k = "timestamp" -> "datetime"
          [] OTHER -> context[k]]

\* json.dumps raises TypeError ("Object of type datetime is not JSON
\* serializable")
TypeError == [id |-> 0, type |-> "TypeError", data |-> {}, metadata |-> {}]

\* json.dumps(event.to_dict()): the JSON text, given here by the fields it
\* carries; a datetime among the data makes json.dumps raise TypeError.
dumps(e, event) ==
    IF \E k \in DOMAIN event.data : event.data[k] = "datetime"
    THEN TypeError
    ELSE [id |-> e, type |-> event.type, data |-> DOMAIN event.data,
          metadata |-> DOMAIN event.metadata]

\* "for filter_func in self.filters: if not filter_func(event)": a filter of
\* this model is the set of event types it rejects.
passes_filtersAlways(event) == TRUE

passes_filters(event) == \A k \in DOMAIN filters : event.type \notin filters[k]

\* "self.event_history.append(event)" and
\* "if len(self.event_history) > self.max_history: self.event_history.pop(0)"
add_to_historyPopLast(history, e) ==
    IF Len(history) + 1 > max_history
    THEN history
    ELSE Append(history, e)

add_to_history(history, e) ==
    IF Len(history) + 1 > max_history
    THEN Tail(Append(history, e))
    ELSE Append(history, e)

\* _handle_event: "handlers = self.handlers.get(event.type, [])" and
\* "all_handlers = handlers + self.wildcard_handlers"
all_handlersNoWildcard(type) == handlers[type]

all_handlers(type) == handlers[type] \o wildcard_handlers

\* "await asyncio.gather(*tasks)": the coroutines become tasks that the loop
\* will run after everything that is ready already, in the order given.
gatherInFront(queue, tasks) == tasks \o queue

gather(queue, tasks) == queue \o tasks

HandlerTask(e, handler) ==
    [kind |-> "handler", event |-> e, id |-> handler.id,
     callback |-> handler.callback, pc |-> "start"]

PublishTask(e) ==
    [kind |-> "publish", event |-> e, id |-> 0, callback |-> "", pc |-> "start"]

\* One pass of "for ws in self.websocket_connections" of the broadcast of
\* event e, up to its "await ws.send_text(message)"; a send that raises puts
\* the connection among the closed ones.  visited is empty when the loop
\* starts.  The iterator of a set raises RuntimeError when the size of the
\* set has changed since the loop started; after the last connection the
\* closed ones are removed and publish returns.
send_next(e, message, size, visited, closed) ==
    IF Cardinality(websocket_connections) # size
    THEN /\ phase' = [phase EXCEPT ![e] = "raised"]
         /\ UNCHANGED <<websocket_connections, sending, sent_text, waiting>>
    ELSE IF websocket_connections \ visited = {}
    THEN /\ websocket_connections' = websocket_connections \ closed
         /\ phase' = [phase EXCEPT ![e] = "returned"]
         /\ UNCHANGED <<sending, sent_text, waiting>>
    ELSE \E ws \in websocket_connections \ visited, sent \in BOOLEAN :
         /\ sent_text' = [sent_text EXCEPT ![ws] = Append(@, message)]
         /\ sending' = [c \in DOMAIN sending \cup {e} |->
                           IF c = e
                           THEN [message |-> message, size |-> size,
                                 visited |-> visited \cup {ws},
                                 closed |-> IF sent THEN closed
                                            ELSE closed \cup {ws}]
                           ELSE sending[c]]
         /\ waiting' = waiting \cup {PublishTask(e)}
         /\ phase' = [phase EXCEPT ![e] = "broadcasting"]
         /\ UNCHANGED websocket_connections

\* _broadcast_to_websockets(event), from its start to its first await.
broadcast_to_websockets(e, event) ==
    IF websocket_connections = {}
    THEN /\ phase' = [phase EXCEPT ![e] = "returned"]
         /\ UNCHANGED <<websocket_connections, sending, sent_text, waiting>>
    ELSE IF dumps(e, event) = TypeError
    THEN /\ phase' = [phase EXCEPT ![e] = "raised"]
         /\ UNCHANGED <<websocket_connections, sending, sent_text, waiting>>
    ELSE send_next(e, dumps(e, event), Cardinality(websocket_connections), {}, {})

\* publish(event_type, source, data), from the call to the first await of
\* the caller: the event is constructed, filtered, put in the history and
\* counted, and the handlers are started; without handlers the broadcast
\* begins in the same step.
Publish(type, url, download_id) ==
    /\ caller = NoItem
    /\ Len(events) < MaxEvents
    /\ LET e == Len(events) + 1
           event == [type |-> type, data |-> EventData(download_id),
                     metadata |-> <<>>, url |-> url, download_id |-> download_id]
       IN  /\ events' = Append(events, event)
           /\ IF ~passes_filters(event)
              THEN /\ phase' = [phase EXCEPT ![e] = "filtered"]
                   /\ UNCHANGED <<event_history, bus_stats, unfinished, loopVars,
                                  websocket_connections, sending, sent_text>>
              ELSE /\ event_history' = add_to_history(event_history, e)
                   /\ bus_stats' = [bus_stats EXCEPT !.events_published = @ + 1]
                   /\ unfinished' =
                         [unfinished EXCEPT ![e] = Len(all_handlers(type))]
                   /\ IF all_handlers(type) # <<>>
                      THEN /\ ready' = gather(ready,
                                  [k \in DOMAIN all_handlers(type) |->
                                      HandlerTask(e, all_handlers(type)[k])])
                           /\ phase' = [phase EXCEPT ![e] = "handling"]
                           /\ UNCHANGED <<waiting, websocket_connections, sending,
                                          sent_text>>
                      ELSE /\ broadcast_to_websockets(e, event)
                           /\ UNCHANGED ready
    /\ UNCHANGED <<busConfig, invoked, rulesVars, queueVars, outerVars>>

\* _execute_handler has returned for a handler task of event e: it is
\* counted, and when it was the last one of the event, gather wakes up the
\* publisher.
finish_handler(e) ==
    /\ bus_stats' = [bus_stats EXCEPT !.events_handled = @ + 1]
    /\ unfinished' = [unfinished EXCEPT ![e] = @ - 1]
    /\ ready' = IF unfinished[e] = 1
                THEN Append(Tail(ready), PublishTask(e))
                ELSE Tail(ready)
    /\ UNCHANGED waiting

\* The loop runs the first ready task up to its next await.  A handler task
\* calls the callback (EventHandler.handle): a plain function and a handler
\* of the rules engine run to their end, a coroutine that awaits I/O is
\* suspended.  The task of a publisher goes on behind gather, or behind
\* send_text.
RunTask ==
    /\ caller = NoItem
    /\ ready # <<>>
    /\ LET t == Head(ready)
           e == t.event
       IN  IF t.kind = "handler"
           THEN /\ invoked' = IF t.pc = "start"
                              THEN Append(invoked, [event |-> e, handler |-> t.id])
                              ELSE invoked
                /\ IF t.pc = "start" /\ t.callback = "rules"
                   THEN /\ events' = [events EXCEPT
                                         ![e].data = evaluate_rules_context(@)]
                        /\ evaluate_rules(events[e])
                   ELSE UNCHANGED <<events, rulesVars>>
                /\ IF t.pc = "start" /\ t.callback = "async"
                   THEN /\ waiting' = waiting \cup {[t EXCEPT !.pc = "resumed"]}
                        /\ ready' = Tail(ready)
                        /\ UNCHANGED <<bus_stats, unfinished>>
                   ELSE finish_handler(e)
                /\ UNCHANGED <<phase, websocket_connections, sending, sent_text>>
           ELSE /\ ready' = Tail(ready)
                /\ IF phase[e] = "handling"
                   THEN broadcast_to_websockets(e, events[e])
                   ELSE send_next(e, sending[e].message, sending[e].size,
                                  sending[e].visited, sending[e].closed)
                /\ UNCHANGED <<events, invoked, bus_stats, unfinished, rulesVars>>
    /\ UNCHANGED <<busConfig, event_history, queueVars, outerVars>>

\* The I/O a suspended task awaits is done: the task is ready again.
Wake(t) ==
    /\ t \in waiting
    /\ waiting' = waiting \ {t}
    /\ ready' = Append(ready, t)
    /\ UNCHANGED <<busConfig, websocket_connections, events, phase, unfinished,
                   event_history, bus_stats, invoked, sending, sent_text,
                   rulesVars, queueVars, outerVars>>

\* ------------------------------------------------ subscribe / unsubscribe
\* everything of the bus but its lists of handlers
publishVars == <<max_history, filters, websocket_connections, events, phase,
                 unfinished, event_history, bus_stats, invoked, loopVars, sending,
                 sent_text>>

\* f"handler_{n}" and f"wildcard_handler_{n}"
HandlerName(prefix, n) == [prefix |-> prefix, n |-> n]

\* the list without its element at index k ("del handlers[i]")
Delete(list, k) == [j \in 1..(Len(list) - 1) |-> IF j < k THEN list[j] ELSE list[j + 1]]

\* the list after unsubscribe has gone through it: without the first
\* handler that has the id, when there is one
unsubscribed(list, handler_id) ==
    LET found == {k \in DOMAIN list : list[k].id = handler_id}
    IN  IF found = {} THEN list
        ELSE Delete(list, CHOOSE k \in found : \A j \in found : k <= j)

\* subscribe(event_type, callback) without a handler_id of the caller's
Subscribe(type, callback) ==
    /\ Len(handlers[type]) < MaxHandlers
    /\ LET handler_id == HandlerName("handler", Len(handlers[type])) IN
       handlers' = [handlers EXCEPT
                       ![type] = Append(@, [id |-> handler_id, callback |-> callback])]
    /\ UNCHANGED <<wildcard_handlers, publishVars, rulesVars, queueVars, outerVars>>

\* subscribe_all(callback) without a handler_id of the caller's
SubscribeAll(callback) ==
    /\ Len(wildcard_handlers) < MaxHandlers
    /\ LET handler_id == HandlerName("wildcard_handler", Len(wildcard_handlers)) IN
       wildcard_handlers' =
           Append(wildcard_handlers, [id |-> handler_id, callback |-> callback])
    /\ UNCHANGED <<handlers, publishVars, rulesVars, queueVars, outerVars>>

\* unsubscribe(event_type, handler_id)
Unsubscribe(type, handler_id) ==
    /\ handlers' = [handlers EXCEPT ![type] = unsubscribed(@, handler_id)]
    /\ UNCHANGED <<wildcard_handlers, publishVars, rulesVars, queueVars, outerVars>>

\* unsubscribe_all(handler_id)
UnsubscribeAll(handler_id) ==
    /\ wildcard_handlers' = unsubscribed(wildcard_handlers, handler_id)
    /\ UNCHANGED <<handlers, publishVars, rulesVars, queueVars, outerVars>>

\* ------------------------------------------- add_websocket / remove_websocket
\* The API server registers a connection when a client connects and removes
\* it when the client has gone; both are plain calls that run between two
\* steps of the tasks of the loop.
AddWebsocket(ws) ==
    /\ caller = NoItem
    /\ websocket_connections' = websocket_connections \cup {ws}
    /\ UNCHANGED <<busConfig, events, phase, unfinished, event_history, bus_stats,
                   invoked, loopVars, sending, sent_text, rulesVars, queueVars,
                   outerVars>>

RemoveWebsocket(ws) ==
    /\ caller = NoItem
    /\ websocket_connections' = websocket_connections \ {ws}
    /\ UNCHANGED <<busConfig, events, phase, unfinished, event_history, bus_stats,
                   invoked, loopVars, sending, sent_text, rulesVars, queueVars,
                   outerVars>>

\* ------------------------------------------------------------ rules file
\* create_default_rules(): the five rules, each with its first condition
\* and its first action (values as texts)
DefaultRule(id, condition_type, operator, value, action_type) ==
    [id |-> id,
     conditions |-> <<[condition_type |-> condition_type, operator |-> operator,
                       value |-> value]>>,
     actions |-> <<[action_type |-> action_type]>>, enabled |-> TRUE,
     priority |-> 0, condition_logic |-> "AND", last_triggered |-> 0,
     trigger_count |-> 0]

create_default_rules ==
    <<DefaultRule("short_video_priority", "duration", "less_than", "300",
                  SET_PRIORITY),
      DefaultRule("music_audio_extract", "uploader", "matches",
                  ".*music.*|.*audio.*|.*sound.*", "extract_audio"),
      DefaultRule("peak_hours_rate_limit", "time_of_day", "in_range", "[18, 22]",
                  "rate_limit"),
      DefaultRule("organize_by_uploader", "uploader", "not_equals", "",
                  "auto_organize"),
      DefaultRule("block_large_files_full_queue", "file_size", "greater_than",
                  "1073741824", "block_download")>>

\* the entry save_rules writes for a rule (the tags are the values of the
\* enum members; last_triggered is not kept by the documents of this model)
rule_to_dict(rule) ==
    [id |-> rule.id, conditions |-> rule.conditions, actions |-> rule.actions,
     enabled |-> rule.enabled, priority |-> rule.priority,
     condition_logic |-> rule.condition_logic, trigger_count |-> rule.trigger_count]

\* the document save_rules writes for the rules given
save_rules(rs) == [k \in DOMAIN rs |-> rule_to_dict(rs[k])]

\* engine.save_rules(): the rules file is opened for writing and rewritten
SaveRules ==
    /\ caller = NoItem
    /\ rules_file' = File(save_rules(rules))
    /\ UNCHANGED <<adapterVars, busVars, queueVars>>

\* A user writes a document into the rules file with an editor.
WriteFile(rules_data) ==
    /\ caller = NoItem
    /\ rules_file' = File(rules_data)
    /\ UNCHANGED <<adapterVars, busVars, queueVars>>

\* create_rules_engine(rules_file): a new SmartRulesEngine (no rules, zeroed
\* statistics, its handlers subscribed to the bus) replaces the one before.
\* load_rules returns True when there is no file, and when the file has been
\* loaded; when it returns False the default rules are added to the (empty)
\* engine and save_rules writes them to the file.
CreateRulesEngine ==
    /\ caller = NoItem
    /\ \A type \in EventType : Len(handlers[type]) < MaxHandlers
    /\ handlers' = [type \in EventType |->
                       Append(handlers[type],
                              [id |-> HandlerName("handler", Len(handlers[type])),
                               callback |-> "rules"])]
    /\ statistics' = [rules_triggered |-> 0, actions_executed |-> 0,
                      last_evaluation |-> 0]
    /\ IF ~rules_file.exists
       THEN /\ rules' = <<>>
            /\ load_result' = "True"
            /\ UNCHANGED rules_file
       ELSE IF \A k \in DOMAIN rules_file.document : Parses(rules_file.document[k])
       THEN /\ rules' = [k \in DOMAIN rules_file.document |->
                            RuleOf(rules_file.document[k])]
            /\ load_result' = "True"
            /\ UNCHANGED rules_file
       ELSE /\ rules' = create_default_rules
            /\ load_result' = "False"
            /\ rules_file' = File(save_rules(rules'))
    /\ UNCHANGED <<max_history, wildcard_handlers, filters, websocket_connections,
                   events, phase, unfinished, event_history, bus_stats, invoked,
                   loopVars, sending, sent_text, adapterVars, queueVars>>

\* -------------------------------------------------------- engine adapters
\* One call of engine.download(request) of one of the four adapters, and
\* the child process it starts.  A chunk of output is what the pipe of a
\* stream and the StreamReader behind it take up together while nobody
\* reads the stream (the adapters pass stdout=PIPE and stderr=PIPE and set
\* no limit): a child that writes to a stream holding PipeCapacity chunks
\* is blocked in its write until the adapter reads the stream.

\* the stream whose lines the adapter reads until end of file
Monitored(e) == IF e = STREAMLINK THEN "stderr" ELSE "stdout"

\* the adapter hands lines to the progress callback: gallery-dl every line,
\* the others the lines that carry progress
CallsBack(e, is_progress) ==
    progress_callback /\ (e = GALLERY_DL \/ is_progress)

\* "return {'status': status, ...}"
Return(status) ==
    /\ result' = status
    /\ pc' = "returned"

\* download(request) is called.  YtDlpAria2Engine first asks yt-dlp for the
\* direct URL; the others build their command line and start the child.
DownloadBegin(e, callback) ==
    /\ pc = "idle"
    /\ adapter' = e
    /\ progress_callback' = callback
    /\ pc' = IF e = YT_DLP_ARIA2 THEN "extract" ELSE "spawn"
    /\ UNCHANGED <<input_file, process, output, pipe, result, fileVars, queueVars,
                   busVars>>

\* YtDlpAria2Engine: _run_command(extract_cmd) (communicate() reads both
\* streams of yt-dlp to the end), json.loads and video_info.get('url').  Any
\* of them may raise: the except clause returns an error.
Extract(raises) ==
    /\ pc = "extract"
    /\ IF raises THEN Return("error") ELSE pc' = "tempfile" /\ UNCHANGED result
    /\ UNCHANGED <<adapter, progress_callback, input_file, process, output, pipe,
                   fileVars, queueVars, busVars>>

\* YtDlpAria2Engine: NamedTemporaryFile(delete=False) creates the input
\* file; the body of the with statement may raise once the file exists
\* (_sanitize_filename of a title that is not a string).
CreateInputFile(raises) ==
    /\ pc = "tempfile"
    /\ input_file' = TRUE
    /\ IF raises THEN Return("error") ELSE pc' = "spawn" /\ UNCHANGED result
    /\ UNCHANGED <<adapter, progress_callback, process, output, pipe, fileVars,
                   queueVars, busVars>>

\* asyncio.create_subprocess_exec: raises when the binary cannot be started,
\* else the child runs and will write the chunks of plan.
Spawn(raises, plan) ==
    /\ pc = "spawn"
    /\ IF raises
       THEN /\ Return("error")
            /\ UNCHANGED <<process, output>>
       ELSE /\ process' = "running"
            /\ output' = plan
            /\ pc' = "readline"
            /\ UNCHANGED result
    /\ UNCHANGED <<adapter, progress_callback, input_file, pipe, fileVars, queueVars,
                   busVars>>

\* The child writes its next chunk, when the stream takes it.
ChildWrites ==
    /\ process = "running"
    /\ output # <<>>
    /\ pipe[Head(output)] < PipeCapacity
    /\ pipe' = [pipe EXCEPT ![Head(output)] = @ + 1]
    /\ output' = Tail(output)
    /\ UNCHANGED <<adapter, progress_callback, pc, input_file, process, result,
                   fileVars, queueVars, busVars>>

\* The child has written everything and exits; its streams are closed.
ProcessExits ==
    /\ process = "running"
    /\ output = <<>>
    /\ process' = "exited"
    /\ UNCHANGED <<adapter, progress_callback, pc, input_file, output, pipe, result,
                   fileVars, queueVars, busVars>>

\* "line = await process.<stream>.readline()" returns: with a line of the
\* monitored stream, or with b'' at its end (the loop breaks).  While the
\* stream is empty and open the coroutine stays suspended.
ReadLine(is_progress) ==
    /\ pc = "readline"
    /\ LET stream == Monitored(adapter) IN
       IF pipe[stream] > 0
       THEN /\ pipe' = [pipe EXCEPT ![stream] = @ - 1]
            /\ pc' = IF CallsBack(adapter, is_progress) THEN "callback" ELSE "readline"
       ELSE /\ process = "exited"
            /\ pc' = "wait"
            /\ UNCHANGED pipe
    /\ UNCHANGED <<adapter, progress_callback, input_file, process, output, result,
                   fileVars, queueVars, busVars>>

\* "await request.progress_callback(progress)" returns or raises; what it
\* raises is caught by the except clause of download.
Callback(raises) ==
    /\ pc = "callback"
    /\ IF raises THEN Return("error") ELSE pc' = "readline" /\ UNCHANGED result
    /\ UNCHANGED <<adapter, progress_callback, input_file, process, output, pipe,
                   fileVars, queueVars, busVars>>

\* "await process.wait()", then YtDlpAria2Engine unlinks its input file, and
\* the call returns success.
WaitAndReturn ==
    /\ pc = "wait"
    /\ process = "exited"
    /\ input_file' = IF adapter = YT_DLP_ARIA2 THEN FALSE ELSE input_file
    /\ Return("success")
    /\ UNCHANGED <<adapter, progress_callback, process, output, pipe, fileVars,
                   queueVars, busVars>>

\* ------------------------------------------------------------------ Next
Next ==
    \/ \E p \in PriorityChoices : AddItem(p)
    \/ \E w \in Workers : GetNextBegin(w)
    \/ \E w \in Workers : GetNextPop(w)
    \/ \E w \in Workers : GetNextCheck(w)
    \/ \E w \in Workers, success \in BOOLEAN : CompleteItem(w, success)
    \/ \E i \in Created : CancelItem(i)
    \/ \E i \in Created : PauseItem(i)
    \/ \E i \in Created : ResumeItem(i)
    \/ ClearCompleted
    \/ Tick

Spec == Init /\ [][Next]_vars

\* The same program with users who submit the URLs of UrlChoices, with and
\* without skip_duplicates, on a manager with one download slot, no
\* bandwidth cap and no retries.
NextDup ==
    \/ \E url \in UrlChoices, p \in PriorityChoices, skip_duplicates \in BOOLEAN :
          AddUrl(url, p, skip_duplicates)
    \/ \E w \in Workers : GetNextBegin(w)
    \/ \E w \in Workers : GetNextPop(w)
    \/ \E w \in Workers : GetNextCheck(w)
    \/ \E w \in Workers, success \in BOOLEAN : CompleteItem(w, success)
    \/ \E i \in Created : CancelItem(i)
    \/ \E i \in Created : PauseItem(i)
    \/ \E i \in Created : ResumeItem(i)
    \/ ClearCompleted
    \/ Tick

\* The same program on a manager that is connected to Redis (one download
\* slot, no bandwidth cap), with restarts of the process.
NextStore ==
    \/ \E p \in PriorityChoices : AddItem(p)
    \/ \E w \in Workers : GetNextBegin(w)
    \/ \E w \in Workers : GetNextPop(w)
    \/ \E w \in Workers : GetNextCheck(w)
    \/ \E w \in Workers, success \in BOOLEAN : CompleteItem(w, success)
    \/ \E i \in Created : CancelItem(i)
    \/ \E i \in Created : PauseItem(i)
    \/ \E i \in Created : ResumeItem(i)
    \/ ClearCompleted
    \/ Restart
    \/ Tick

InitStore ==
    /\ max_concurrent = 1
    /\ max_retries \in MaxRetriesChoices
    /\ total_limit = NoLimit
    /\ redis_client = TRUE
    /\ status_callbacks = FALSE
    /\ NoBus
    /\ available_engines = Engines
    /\ Constructed

SpecStore == InitStore /\ [][NextStore]_vars

\* The same program with an observer registered by add_status_callback, on
\* a manager with or without Redis (one download slot, no bandwidth cap, no
\* retries); the users add and cancel.
NextNotify ==
    \/ \E p \in PriorityChoices : AddItem(p)
    \/ \E w \in Workers : GetNextBegin(w)
    \/ \E w \in Workers : GetNextPop(w)
    \/ \E w \in Workers : GetNextCheck(w)
    \/ \E w \in Workers, success \in BOOLEAN : CompleteItem(w, success)
    \/ \E i \in Created : CancelItem(i)
    \/ SaveReturns

InitNotify ==
    /\ max_concurrent = 1
    /\ max_retries = 0
    /\ total_limit = NoLimit
    /\ redis_client \in BOOLEAN
    /\ status_callbacks = TRUE
    /\ NoBus
    /\ available_engines = Engines
    /\ Constructed

SpecNotify == InitNotify /\ [][NextNotify]_vars

\* The event bus alone: publishers, handler tasks and the asyncio loop.  The
\* subscriptions are made before the first event: by nobody; by a coroutine
\* for download.queued, a plain function for download.progress and a
\* coroutine for all events; or by the rules engine (_setup_event_listeners)
\* and a plain function for all events.
Subscriptions ==
    {[handlers |-> [type \in EventType |-> <<>>], wildcard_handlers |-> <<>>],
     [handlers |-> (DOWNLOAD_QUEUED :> <<[id |-> 1, callback |-> "async"]>>
                    @@ DOWNLOAD_PROGRESS :> <<[id |-> 2, callback |-> "sync"]>>),
      wildcard_handlers |-> <<[id |-> 3, callback |-> "async"]>>],
     [handlers |-> (DOWNLOAD_QUEUED :> <<[id |-> 1, callback |-> "rules"]>>
                    @@ DOWNLOAD_PROGRESS :> <<[id |-> 2, callback |-> "rules"]>>),
      wildcard_handlers |-> <<[id |-> 3, callback |-> "sync"]>>]}
MaxHistoryChoices == {0, 1, 2}
FilterChoices == {<<>>, <<{DOWNLOAD_PROGRESS}>>}
ConnectionChoices == SUBSET Sockets

NextBus ==
    \/ \E type \in EventType : Publish(type, PlainUrl, NoItem)
    \/ RunTask
    \/ \E t \in waiting : Wake(t)

InitBus ==
    /\ max_concurrent = 1
    /\ max_retries = DefaultMaxRetries
    /\ total_limit = NoLimit
    /\ redis_client = FALSE
    /\ status_callbacks = FALSE
    /\ available_engines = Engines
    /\ max_history \in MaxHistoryChoices
    /\ \E subscription \in Subscriptions :
          /\ handlers = subscription.handlers
          /\ wildcard_handlers = subscription.wildcard_handlers
    /\ filters \in FilterChoices
    /\ websocket_connections \in ConnectionChoices
    /\ Constructed

SpecBus == InitBus /\ [][NextBus]_vars

\* The queue, the bus and the rules engine together.  The rules engine has
\* subscribed its handlers; rules are added, switched on and off and loaded
\* from documents; items are added with priority LOW, some component
\* publishes download.queued for an item of the queue, and the workers ask
\* for items.  One download slot, no bandwidth cap.
Rule(id, conditions, actions) ==
    [id |-> id, conditions |-> conditions, actions |-> actions, enabled |-> TRUE,
     priority |-> 0, condition_logic |-> "AND", last_triggered |-> 0,
     trigger_count |-> 0]
RuleCondition(condition_type, operator, value) ==
    [condition_type |-> condition_type, operator |-> operator, value |-> value]
RuleAction(action_type) == [action_type |-> action_type]
HostRule(id) ==
    Rule(id, <<RuleCondition(URL_PATTERN, CONTAINS, "host.example")>>,
         <<RuleAction(SET_PRIORITY)>>)
RuleChoices == {HostRule("r1"), HostRule("r2")}
RuleIds == {"r1", "r2"}

\* an entry of a rules document (json.load), with the tags as texts
RuleDict(id, condition_type, operator, action_type) ==
    [id |-> id,
     conditions |-> <<RuleCondition(condition_type, operator, "host.example")>>,
     actions |-> <<RuleAction(action_type)>>, enabled |-> TRUE, priority |-> 0,
     condition_logic |-> "AND", trigger_count |-> 0]
GoodEntry(id) == RuleDict(id, URL_PATTERN, CONTAINS, SET_PRIORITY)
Documents ==
    {<<GoodEntry("r1")>>,
     <<GoodEntry("r1"), RuleDict("r2", "url_regex", CONTAINS, SET_PRIORITY)>>,
     <<RuleDict("r2", URL_PATTERN, "like", SET_PRIORITY), GoodEntry("r1")>>,
     <<GoodEntry("r1"), RuleDict("r2", URL_PATTERN, CONTAINS, "set_speed")>>}
AddedUrls == {PlainUrl, YoutubeUrl}

NextRules ==
    \/ \E url \in AddedUrls : AddUrl(url, LOW, TRUE)
    \/ \E i \in items : Publish(DOWNLOAD_QUEUED, queue_items[i].url, i)
    \/ RunTask
    \/ \E w \in Workers : GetNextBegin(w)
    \/ \E w \in Workers : GetNextPop(w)
    \/ \E w \in Workers : GetNextCheck(w)
    \/ \E rule \in RuleChoices : AddRule(rule)
    \/ \E rule_id \in RuleIds, enabled \in BOOLEAN : SetEnabled(rule_id, enabled)
    \/ \E rules_data \in Documents : LoadRules(rules_data)

InitRules ==
    /\ max_concurrent = 1
    /\ max_retries = DefaultMaxRetries
    /\ total_limit = NoLimit
    /\ redis_client = FALSE
    /\ status_callbacks = FALSE
    /\ available_engines = Engines
    /\ max_history = DefaultMaxHistory
    /\ handlers = (DOWNLOAD_QUEUED :> <<[id |-> 1, callback |-> "rules"]>>
                   @@ DOWNLOAD_PROGRESS :> <<[id |-> 2, callback |-> "rules"]>>)
    /\ wildcard_handlers = <<>>
    /\ filters = <<>>
    /\ websocket_connections = {}
    /\ Constructed

SpecRules == InitRules /\ [][NextRules]_vars

\* The downloader with its engines: URLs of several sites are added through
\* add_to_queue and straight through the queue manager, the workers start
\* the engines' child processes, and users cancel.  One download slot, no
\* bandwidth cap, the default retry limit; any set of engines is installed.
ReturnCodes == {0, 1}
AvailableChoices == {Engines, {YT_DLP_ARIA2}}
SubmittedUrls == {TwitchUrl, PlainUrl}
PreferredChoices == {AUTO, YT_DLP_ARIA2}

NextEngine ==
    \/ \E url \in SubmittedUrls, preferred \in PreferredChoices :
          AddToQueue(url, NORMAL, preferred)
    \/ \E url \in SubmittedUrls : AddUrl(url, NORMAL, TRUE)
    \/ \E w \in Workers : GetNextBegin(w)
    \/ \E w \in Workers : GetNextPop(w)
    \/ \E w \in Workers : GetNextCheck(w)
    \/ \E w \in Workers, raises \in BOOLEAN : StartDownload(w, raises)
    \/ \E w \in Workers, returncode \in ReturnCodes : ChildExits(w, returncode)
    \/ \E i \in Created : CancelItem(i)
    \/ Tick

InitEngine ==
    /\ max_concurrent = 1
    /\ max_retries = DefaultMaxRetries
    /\ total_limit = NoLimit
    /\ redis_client = FALSE
    /\ status_callbacks = FALSE
    /\ NoBus
    /\ available_engines \in AvailableChoices
    /\ Constructed

SpecEngine == InitEngine /\ [][NextEngine]_vars

\* select_engine alone: add_to_queue for every URL, preference and set of
\* installed engines.
NextSelect ==
    \E url \in EngineUrls, p \in PriorityChoices, preferred \in EngineType :
        AddToQueue(url, p, preferred)

InitSelect ==
    /\ max_concurrent = 1
    /\ max_retries = DefaultMaxRetries
    /\ total_limit = NoLimit
    /\ redis_client = FALSE
    /\ status_callbacks = FALSE
    /\ NoBus
    /\ available_engines \in SUBSET Engines
    /\ Constructed

SpecSelect == InitSelect /\ [][NextSelect]_vars

\* Components subscribe plain functions and coroutines to the bus and
\* unsubscribe them by the ids subscribe has returned.
CallbackChoices == {"sync", "async"}
HandlerIds ==
    {HandlerName(prefix, n) : prefix \in {"handler", "wildcard_handler"},
                              n \in 0..(MaxHandlers - 1)}

NextSubscribe ==
    \/ \E type \in EventType, callback \in CallbackChoices : Subscribe(type, callback)
    \/ \E callback \in CallbackChoices : SubscribeAll(callback)
    \/ \E type \in EventType, handler_id \in HandlerIds : Unsubscribe(type, handler_id)
    \/ \E handler_id \in HandlerIds : UnsubscribeAll(handler_id)

InitSubscribe ==
    /\ max_concurrent = 1
    /\ max_retries = DefaultMaxRetries
    /\ total_limit = NoLimit
    /\ redis_client = FALSE
    /\ status_callbacks = FALSE
    /\ NoBus
    /\ available_engines = Engines
    /\ Constructed

SpecSubscribe == InitSubscribe /\ [][NextSubscribe]_vars

\* The event bus with clients that connect and disconnect while events are
\* published; no handler of the rules engine is subscribed.
NextSockets ==
    \/ \E type \in EventType : Publish(type, PlainUrl, NoItem)
    \/ RunTask
    \/ \E t \in waiting : Wake(t)
    \/ \E ws \in Sockets : AddWebsocket(ws)
    \/ \E ws \in Sockets : RemoveWebsocket(ws)

InitSockets ==
    /\ max_concurrent = 1
    /\ max_retries = DefaultMaxRetries
    /\ total_limit = NoLimit
    /\ redis_client = FALSE
    /\ status_callbacks = FALSE
    /\ available_engines = Engines
    /\ max_history = DefaultMaxHistory
    /\ \E subscription \in Subscriptions :
          /\ handlers = subscription.handlers
          /\ wildcard_handlers = subscription.wildcard_handlers
          /\ \A type \in EventType :
                \A k \in DOMAIN handlers[type] : handlers[type][k].callback # "rules"
    /\ filters = <<>>
    /\ websocket_connections \in ConnectionChoices
    /\ Constructed

SpecSockets == InitSockets /\ [][NextSockets]_vars

\* The rules engine under its management calls: rules are added, removed,
\* replaced, switched on and off, and loaded from documents that users have
\* written (one of them names an id twice).
ManagedDocuments ==
    {<<GoodEntry("r1")>>,
     <<GoodEntry("r1"), GoodEntry("r2")>>,
     <<GoodEntry("r1"), GoodEntry("r1")>>}

NextManage ==
    \/ \E rule \in RuleChoices : Len(rules) < MaxRules /\ AddRule(rule)
    \/ \E rule_id \in RuleIds : RemoveRule(rule_id)
    \/ \E rule_id \in RuleIds, updated_rule \in RuleChoices :
          UpdateRule(rule_id, updated_rule)
    \/ \E rule_id \in RuleIds, enabled \in BOOLEAN : SetEnabled(rule_id, enabled)
    \/ \E rules_data \in ManagedDocuments : LoadRules(rules_data)

SpecManage == InitRules /\ [][NextManage]_vars

\* The rules engine and its file: the application creates the engine, users
\* edit the file and manage the rules, the engine saves them.
NextFile ==
    \/ CreateRulesEngine
    \/ \E rules_data \in Documents : WriteFile(rules_data)
    \/ SaveRules
    \/ \E rule \in RuleChoices : AddRule(rule)
    \/ \E rule_id \in RuleIds, enabled \in BOOLEAN : SetEnabled(rule_id, enabled)

SpecFile == InitSubscribe /\ [][NextFile]_vars

\* One download call of an engine adapter, for every engine, with and
\* without a progress callback, and for every output the child may write.
OutputPlans == UNION {[1..n -> Streams] : n \in 0..MaxOutput}

NextAdapter ==
    \/ \E e \in Engines, callback \in BOOLEAN : DownloadBegin(e, callback)
    \/ \E raises \in BOOLEAN : Extract(raises)
    \/ \E raises \in BOOLEAN : CreateInputFile(raises)
    \/ \E raises \in BOOLEAN, plan \in OutputPlans : Spawn(raises, plan)
    \/ ChildWrites
    \/ ProcessExits
    \/ \E is_progress \in BOOLEAN : ReadLine(is_progress)
    \/ \E raises \in BOOLEAN : Callback(raises)
    \/ WaitAndReturn

InitAdapter ==
    /\ max_concurrent = 1
    /\ max_retries = DefaultMaxRetries
    /\ total_limit = NoLimit
    /\ redis_client = FALSE
    /\ status_callbacks = FALSE
    /\ NoBus
    /\ available_engines = Engines
    /\ Constructed

SpecAdapter == InitAdapter /\ [][NextAdapter]_vars

\* The operating system runs the child while it can run, and the event loop
\* runs the coroutine of the download call whenever it is ready: a callback
\* that is awaited returns or raises, a readline that has a line or the end
\* of the stream returns.
AdapterFairness ==
    /\ WF_vars(ChildWrites)
    /\ WF_vars(ProcessExits)
    /\ WF_vars(\E raises \in BOOLEAN : Extract(raises))
    /\ WF_vars(\E raises \in BOOLEAN : CreateInputFile(raises))
    /\ WF_vars(\E raises \in BOOLEAN, plan \in OutputPlans : Spawn(raises, plan))
    /\ WF_vars(\E is_progress \in BOOLEAN : ReadLine(is_progress))
    /\ WF_vars(\E raises \in BOOLEAN : Callback(raises))
    /\ WF_vars(WaitAndReturn)

SpecAdapterFair == InitAdapter /\ [][NextAdapter]_vars /\ AdapterFairness

InitDup == Init /\ max_concurrent = 1 /\ total_limit = NoLimit /\ max_retries = 0

SpecDup == InitDup /\ [][NextDup]_vars

TypeOK ==
    /\ items \subseteq Created
    /\ active_downloads \subseteq Created
    /\ \A i \in Created : queue_items[i].status \in QueueStatus
    /\ caller \in Workers \cup {NoItem}

\* Scheduling.  The asyncio loop runs every coroutine that is ready, in turn:
\* a worker whose download has ended gets to report it, and a worker at the
\* top of process_queue gets to call get_next_item, however often other
\* coroutines run in between (strong fairness).  Inside get_next_item the
\* loop runs on without suspension, and the wall clock keeps running.  No
\* user command is ever required to happen.
Fairness ==
    /\ \A w \in Workers : SF_vars(GetNextBegin(w))
    /\ \A w \in Workers : WF_vars(GetNextPop(w))
    /\ \A w \in Workers : WF_vars(GetNextCheck(w))
    /\ \A w \in Workers : SF_vars(\E success \in BOOLEAN : CompleteItem(w, success))
    /\ WF_vars(Tick)

\* The manager as the downloader constructs it: no bandwidth cap, and
\* concurrent_downloads set to 1.
InitFair == Init /\ max_concurrent = 1 /\ total_limit = NoLimit

SpecFair == InitFair /\ [][Next]_vars /\ Fairness

\* ---------------------------------------------------------------- claims
StatusOf(i) == queue_items[i].status

\* the step in which get_next_item admits item i
Admits(i) == StatusOf(i) # DOWNLOADING /\ queue_items'[i].status = DOWNLOADING

\* the step in which worker w reports to complete_item
Reports(w) == held[w] # NoItem /\ held'[w] = NoItem

\* a user command (cancel, pause, resume, clear_completed) is carried out
UserCommand == user_ops' = user_ops + 1

QueuedIds == {priority_queue[k] : k \in 1..Len(priority_queue)}

\* C1: get_next_item admits only items that are PENDING, or RETRYING with
\* an elapsed retry clock, when it is called; never a PAUSED, CANCELLED,
\* COMPLETED or FAILED one.
C1_AdmitsOnlyQueuedStatus ==
    [][\A i \in Created :
          Admits(i) =>
              \/ StatusOf(i) = PENDING
              \/ /\ StatusOf(i) = RETRYING
                 /\ (i \in DOMAIN retry_times => retry_times[i] = 0)]_vars

\* C2: every item admitted to DOWNLOADING eventually reaches a terminal
\* status (COMPLETED, FAILED or CANCELLED) when workers keep running.
C2_AdmittedEventuallyTerminal ==
    \A i \in 1..MaxItems :
        (i \in Created /\ StatusOf(i) = DOWNLOADING)
            ~> (i \in Created /\ StatusOf(i) \in Terminal)

\* C3: get_next_item makes a bounded number of iterations: while a call goes
\* on, no entry is put back on the queue, so every entry is examined at most
\* once and the call returns after at most len(priority_queue) iterations,
\* whatever the wall clock does.
C3_LoopNeverRequeues ==
    [][(caller # NoItem /\ caller' = caller)
          => Len(priority_queue') <= Len(priority_queue)]_vars

\* C4: at most max_concurrent items are DOWNLOADING.
C4_DownloadingWithinMaxConcurrent ==
    Cardinality({i \in Created : StatusOf(i) = DOWNLOADING}) <= max_concurrent

C4_Witness ==
    /\ SlotsFull
    /\ Cardinality({i \in Created : StatusOf(i) = DOWNLOADING}) = max_concurrent
    /\ \E i \in QueuedIds : i \in items /\ StatusOf(i) = PENDING

\* the step in which the get_next_item call of worker w returns None
ReturnsNone(w) == caller = w /\ caller' = NoItem /\ held'[w] = NoItem

\* C5: with a cap, the reservations of the ledger sum to at most the cap and
\* allocated is that sum; without a cap no get_next_item call is turned away
\* by bandwidth: it returns None only with the queue used up.
C5_LedgerWithinCap ==
    /\ allocated = LedgerSum(bw_active)
    /\ total_limit # NoLimit => LedgerSum(bw_active) <= total_limit

C5_NoCapNeverBlocks ==
    \A w \in Workers :
        (total_limit = NoLimit /\ ReturnsNone(w)) => priority_queue' = <<>>

C5_BandwidthLedger == []C5_LedgerWithinCap /\ [][C5_NoCapNeverBlocks]_vars

C5_Witness ==
    /\ total_limit # NoLimit
    /\ allocated = total_limit
    /\ ~SlotsFull
    /\ \E i \in QueuedIds : i \in items /\ StatusOf(i) = PENDING

\* C6: complete_item(x) acts only on a DOWNLOADING x: reported for an item
\* that was cancelled or paused meanwhile, it leaves the status, the queue
\* and the completed/failed statistics as they are.
C6_CompleteOnlyIfDownloading ==
    [][\A w \in Workers :
          (Reports(w) /\ StatusOf(held[w]) # DOWNLOADING) =>
              /\ queue_items'[held[w]].status = StatusOf(held[w])
              /\ priority_queue' = priority_queue
              /\ stats' = stats]_vars

\* C7: a user command (cancel, pause, resume) leaves the status of an item
\* that is COMPLETED, FAILED or CANCELLED unchanged.
C7_TerminalStaysUnderUserCommands ==
    [][UserCommand =>
          \A i \in Created :
              StatusOf(i) \in Terminal => queue_items'[i].status = StatusOf(i)]_vars

\* the three gates of admission, as they stand for queued item i
PassesGates(i) ==
    /\ i \in items /\ i \notin active_downloads
    /\ (StatusOf(i) = RETRYING /\ i \in DOMAIN retry_times) => retry_times[i] = 0
    /\ can_allocate(i, bandwidth_needed(i))
    /\ ~SlotsFull

\* C8: a get_next_item call that finds a queued PENDING item passing all
\* three gates returns an item: a queue entry that fails the retry-clock gate
\* is skipped and does not keep the call from returning.
C8_AdmittableItemIsReturned ==
    \A w \in Workers :
        (caller = w /\ \E i \in QueuedIds : StatusOf(i) = PENDING /\ PassesGates(i))
            ~> (held[w] # NoItem)

\* C9: get_next_item hands out queued items by priority descending and,
\* within a priority, creation time ascending: when it admits an item, no
\* PENDING item still waiting in the queue comes before the admitted one.
ComesBefore(a, b) ==
    \/ queue_items[a].priority > queue_items[b].priority
    \/ /\ queue_items[a].priority = queue_items[b].priority
       /\ queue_items[a].created_at < queue_items[b].created_at

C9_AdmitsInPriorityOrder ==
    [][\A x \in Created :
          Admits(x) =>
              \A k \in 1..Len(priority_queue') :
                  LET y == priority_queue'[k] IN
                  (y \in items /\ y \notin active_downloads' /\ StatusOf(y) = PENDING)
                      => ~ComesBefore(y, x)]_vars

\* max_concurrent = 1, no user command: the URGENT item added after a NORMAL
\* one has completed, the NORMAL one is being downloaded.
C9_Witness ==
    /\ max_concurrent = 1
    /\ user_ops = 0
    /\ \E x, y \in Created :
          /\ queue_items[x].created_at < queue_items[y].created_at
          /\ queue_items[x].priority = NORMAL /\ queue_items[y].priority = URGENT
          /\ StatusOf(y) = COMPLETED /\ queue_items[y].retry_count = 0
          /\ StatusOf(x) = DOWNLOADING /\ queue_items[x].retry_count = 0

\* C10: retry_count never exceeds max_retries, and an item is FAILED only
\* with retry_count = max_retries (the code classifies no failure as
\* permanent or engine-unavailable).
C10_FailedOnlyAtRetryCap ==
    \A i \in Created :
        /\ queue_items[i].retry_count <= max_retries
        /\ StatusOf(i) = FAILED => queue_items[i].retry_count = max_retries

\* number of entries of item x in the queue q
RECURSIVE Count(_, _)
Count(q, x) ==
    IF q = <<>> THEN 0
    ELSE (IF Head(q) = x THEN 1 ELSE 0) + Count(Tail(q), x)

\* the step in which resume_item takes item x from PAUSED back to PENDING
Resumes(x) == StatusOf(x) = PAUSED /\ queue_items'[x].status = PENDING

\* C11: pause_item(x) then resume_item(x) on a PENDING item restores the
\* state before the pause: x is PENDING and queued exactly once (so it is
\* admitted once, and not again after it has completed).  An item paused
\* while PENDING still has its one queue entry and has never been attempted.
C11_ResumeQueuesOnce ==
    [][\A x \in Created :
          (Resumes(x) /\ Count(priority_queue, x) = 1
                      /\ queue_items[x].retry_count = 0)
              => Count(priority_queue', x) = 1]_vars

\* C12: cancel_item is idempotent: cancel_item(x) on an item that is already
\* CANCELLED changes nothing: status, completed_at, active_downloads, the
\* bandwidth ledger and the queue are as the first cancel left them.
C12_CancelIdempotent ==
    [][\A x \in Created :
          (CancelItem(x) /\ StatusOf(x) = CANCELLED) =>
              /\ queue_items'[x].status = CANCELLED
              /\ queue_items'[x].completed_at = queue_items[x].completed_at
              /\ active_downloads' = active_downloads
              /\ bw_active' = bw_active /\ allocated' = allocated
              /\ priority_queue' = priority_queue]_vars

\* C13: add_item(url, skip_duplicates=True) for a URL whose normalized hash
\* is already recorded returns None and leaves the item map, the heap, the
\* duplicate set and total_added unchanged; only duplicates_skipped grows.
C13_DuplicateSkippedFrame ==
    [][\A url \in UrlChoices, p \in PriorityChoices :
          (AddUrl(url, p, TRUE) /\ hash_url(url) \in url_hashes) =>
              /\ items' = items
              /\ queue_items' = queue_items
              /\ priority_queue' = priority_queue
              /\ url_hashes' = url_hashes
              /\ stats'.total_added = stats.total_added
              /\ stats'.duplicates_skipped = stats.duplicates_skipped + 1]_vars

C13_Witness ==
    /\ stats.duplicates_skipped = 1
    /\ stats.total_added = 1
    /\ Cardinality(items) = 1
    /\ Len(priority_queue) = 1

\* a tracking parameter: any utm_* parameter, ref, source
IsTracking(key) == key \in {"utm_", "utm_source", "utm_medium", "ref", "source"}

\* the two URLs differ in tracking query parameters only
DiffersOnlyInTracking(a, b) ==
    /\ a.host = b.host /\ a.path = b.path
    /\ SelectSeq(a.query, LAMBDA q : ~IsTracking(q.key))
         = SelectSeq(b.query, LAMBDA q : ~IsTracking(q.key))

\* C14: two URLs that differ only in tracking query parameters have the same
\* duplicate hash: add_item with skip_duplicates=True for a URL that differs
\* from the URL of an item added before in tracking parameters only is a
\* DuplicateSkipped and creates no item.
C14_TrackingParametersIgnored ==
    [][\A url \in UrlChoices, p \in PriorityChoices :
          (/\ AddUrl(url, p, TRUE)
           /\ \E i \in Created : DiffersOnlyInTracking(queue_items[i].url, url))
              => (Created' = Created /\ items' = items)]_vars

\* the step in which the process is restarted
Restarts == restarts' = restarts + 1

NonTerminal == {PENDING, DOWNLOADING, RETRYING, PAUSED}

\* C15: after a restart from the store no item is DOWNLOADING and none is in
\* active_downloads; every item that was non-terminal before the restart is
\* in memory again and can be admitted (it is queued), and an item persisted
\* as DOWNLOADING is PENDING with started_at cleared.
C15_RestartRecoversItems ==
    [][Restarts =>
          /\ active_downloads' = {}
          /\ \A i \in items :
                StatusOf(i) \in NonTerminal =>
                    /\ i \in items'
                    /\ queue_items'[i].status # DOWNLOADING
                    /\ Count(priority_queue', i) >= 1
          /\ \A k \in DOMAIN redis :
                redis[k].status = JsonStr(StrQueueStatus(DOWNLOADING)) =>
                    /\ k \in items'
                    /\ queue_items'[k].status = PENDING
                    /\ queue_items'[k].started_at = 0]_vars

\* C16: what _save_item_to_redis has stored, _load_from_redis loads as an
\* item equal in all persisted fields: after a restart every stored item is
\* in memory and serializes to the stored data again.
C16_SaveLoadRoundTrip ==
    [][Restarts =>
          \A k \in DOMAIN redis :
              /\ k \in items'
              /\ item_to_json(queue_items'[k]) = redis[k]]_vars

\* The code has no grace period of its own; the claim is stated for the
\* longest wait the clock overrun can tell from a longer one.
GracePeriod == MaxOverrun - 1

\* C17: once an item is CANCELLED, the child process of its download does not
\* keep running beyond the grace period.
C17_CancelledChildTerminated == \A w \in Workers : overrun[w] <= GracePeriod

\* no available engine handles the URL of item i
NoEngineHandles(i) ==
    \A engine \in available_engines : ~can_handle(engine, queue_items[i].url)

\* C18: when no available engine handles the URL of the item a worker starts
\* to download, the item is marked FAILED at once: it does not enter RETRYING
\* and its retry_count is unchanged.
C18_NoEngineFailsAtOnce ==
    [][\A w \in Workers :
          (/\ StartDownload(w, FALSE)
           /\ StatusOf(held[w]) = DOWNLOADING
           /\ NoEngineHandles(held[w]))
          => /\ queue_items'[held[w]].status = FAILED
             /\ queue_items'[held[w]].retry_count =
                   queue_items[held[w]].retry_count]_vars

\* C19: when the child process of a download exits with a non-zero status,
\* the attempt counts as a failure: the item is not marked COMPLETED.
C19_NonZeroExitNotCompleted ==
    [][\A w \in Workers :
          (ChildExits(w, 1) /\ StatusOf(held[w]) = DOWNLOADING)
          => queue_items'[held[w]].status # COMPLETED]_vars

\* the place of an engine in the fixed order streamlink, gallery-dl, ripme,
\* yt-dlp+aria2c
Rank(engine) ==
    CASE engine = STREAMLINK -> 1
      [] engine = GALLERY_DL -> 2
      [] engine = RIPME -> 3
      [] engine = YT_DLP_ARIA2 -> 4

Usable(engine, url) == engine \in available_engines /\ can_handle(engine, url)

\* C20: select_engine returns the preferred engine when one is specified,
\* available and handles the URL; otherwise the first available engine that
\* handles the URL in the order streamlink, gallery-dl, ripme, yt-dlp+aria2c,
\* and None when there is none; an engine it returns is available and
\* handles the URL.
C20_SelectEngineContract ==
    \A url \in EngineUrls, preferred \in EngineType :
        LET engine == select_engine(url, preferred)
            honoured == preferred # AUTO /\ Usable(preferred, url)
        IN  /\ honoured => engine = preferred
            /\ ~honoured =>
                  IF \E x \in Engines : Usable(x, url)
                  THEN /\ engine \in Engines
                       /\ Usable(engine, url)
                       /\ \A x \in Engines : Usable(x, url) => Rank(engine) <= Rank(x)
                  ELSE engine = NoEngine
            /\ engine # NoEngine => (engine \in Engines /\ Usable(engine, url))

\* add_to_queue has stored the preferred yt-dlp+aria2c for a twitter.com URL
\* although gallery-dl, which comes first in the order, is installed too
C20_Witness ==
    \E i \in Created :
        /\ queue_items[i].url = TwitterUrl
        /\ queue_items[i].engine_type = ClassName(YT_DLP_ARIA2)
        /\ GALLERY_DL \in available_engines

\* what the observer has been told about item i so far
Notified(i) == IF i \in DOMAIN notified THEN notified[i] ELSE <<>>

\* every handler that has changed item i has also told the observer
AllTold(i) == \A k \in DOMAIN pending_notify : pending_notify[k] # i

IsPrefix(s, t) == Len(s) <= Len(t) /\ \A k \in DOMAIN s : s[k] = t[k]

\* C21: an item that no user command has touched and that succeeds on its
\* first attempt is reported to the observer as PENDING (added), DOWNLOADING
\* (started) and COMPLETED, in that order and once each, and for every item
\* a report of COMPLETED comes after a report of DOWNLOADING.
C21_LifecycleNotifications ==
    \A i \in Created :
       /\ (user_ops = 0 /\ queue_items[i].retry_count = 0
              /\ StatusOf(i) # FAILED)
          => /\ IsPrefix(Notified(i), <<PENDING, DOWNLOADING, COMPLETED>>)
             /\ (StatusOf(i) = COMPLETED /\ AllTold(i))
                => Notified(i) = <<PENDING, DOWNLOADING, COMPLETED>>
       /\ \A k \in DOMAIN Notified(i) :
             Notified(i)[k] = COMPLETED
             => \E j \in 1..(k - 1) : Notified(i)[j] = DOWNLOADING

\* the same on a manager without Redis
C21_InMemory == ~redis_client => C21_LifecycleNotifications

\* ------------------------------------------------------ claims: event bus
\* the filters turn the event away
Rejected(e) == \E k \in DOMAIN filters : events[e].type \in filters[k]

\* the ids of the handlers subscribed to the type, and to all events
Subscribed(type) ==
    {handlers[type][k].id : k \in DOMAIN handlers[type]}
    \cup {wildcard_handlers[k].id : k \in DOMAIN wildcard_handlers}

\* how often handler h has been invoked for event e
Invocations(e, h) ==
    Cardinality({k \in DOMAIN invoked : invoked[k] = [event |-> e, handler |-> h]})

\* how often event e has been sent to connection ws
Sends(e, ws) ==
    Cardinality({k \in DOMAIN sent_text[ws] : sent_text[ws][k].id = e})

\* publish has come to its end for event e
Ended(e) == phase[e] \in {"returned", "raised"}

\* C22: events are numbered in publish order.  Every handler is invoked for
\* an earlier event before it is invoked for a later one, and the history
\* lists the events in publish order.
C22_PublishOrderKept ==
    /\ \A a, b \in DOMAIN invoked :
          (a < b /\ invoked[a].handler = invoked[b].handler)
          => invoked[a].event < invoked[b].event
    /\ \A a, b \in DOMAIN event_history :
          a < b => event_history[a] < event_history[b]

\* two publishers at a time: a coroutine handler is still suspended in its
\* invocation for one event when it has been invoked for the next one, and
\* both events are in the history
C22_Witness ==
    \E a, b \in DOMAIN invoked :
       /\ a < b
       /\ invoked[a].handler = invoked[b].handler
       /\ phase[invoked[a].event] = "handling"
       /\ phase[invoked[b].event] = "handling"
       /\ \E t \in waiting : t.kind = "handler" /\ t.event = invoked[a].event
                             /\ t.id = invoked[a].handler
       /\ Len(event_history) = 2

\* C23: for an event that passes the filters, only handlers subscribed to
\* its type or to all events are invoked, none of them twice, and when the
\* handling is over each of them has been invoked exactly once.
C23_HandlersInvoked ==
    \A e \in DOMAIN events :
       ~Rejected(e) =>
          /\ \A k \in DOMAIN invoked :
                invoked[k].event = e
                => invoked[k].handler \in Subscribed(events[e].type)
          /\ \A h \in Subscribed(events[e].type) :
                /\ Invocations(e, h) <= 1
                /\ phase[e] \in {"broadcasting", "returned", "raised"}
                   => Invocations(e, h) = 1

\* an event was handled by the handler of its type and by the wildcard
\* handler, and the handler of the other type was left alone
C23_Witness ==
    \E e \in DOMAIN events :
       /\ Ended(e)
       /\ Cardinality(Subscribed(events[e].type)) = 2
       /\ \E type \in EventType :
             handlers[type] # <<>> /\ Invocations(e, handlers[type][1].id) = 0

\* C24: an event that passes the filters is sent to every WebSocket
\* connection exactly once, as the JSON text of the event, and not before
\* all its handlers have finished.
C24_BroadcastToEveryConnection ==
    \A e \in DOMAIN events :
       /\ \A ws \in Sockets :
             /\ Sends(e, ws) <= 1
             /\ Sends(e, ws) = 1 => unfinished[e] = 0
       /\ (~Rejected(e) /\ Ended(e))
          => \A ws \in websocket_connections :
                \E k \in DOMAIN sent_text[ws] :
                   sent_text[ws][k] = dumps(e, events[e])

\* C25: a published event never changes: no handler changes its data or its
\* metadata.
C25_EventImmutable ==
    [][\A e \in DOMAIN events : events'[e] = events[e]]_vars

\* C26: an event that a filter turns away reaches no handler and no
\* WebSocket connection, is not put in the history and is not counted.
C26_FilteredEventHasNoEffect ==
    /\ \A e \in DOMAIN events :
          Rejected(e) =>
             /\ \A k \in DOMAIN invoked : invoked[k].event # e
             /\ \A ws \in Sockets : Sends(e, ws) = 0
             /\ \A k \in DOMAIN event_history : event_history[k] # e
    /\ bus_stats.events_published =
          Cardinality({e \in DOMAIN events : ~Rejected(e)})

\* an event was turned away while handlers and connections were there, and
\* another event went through
C26_Witness ==
    /\ \E e \in DOMAIN events :
          /\ Rejected(e)
          /\ Subscribed(events[e].type) # {}
    /\ websocket_connections # {}
    /\ \E e \in DOMAIN events : ~Rejected(e) /\ phase[e] = "returned"

\* the ids of the events that passed the filters, in publish order
Unfiltered == SelectSeq([e \in DOMAIN events |-> e], LAMBDA e : ~Rejected(e))

\* the last n elements of a sequence (all of them when it has fewer)
LastN(seq, n) == SubSeq(seq, Max({Len(seq) - n, 0}) + 1, Len(seq))

\* C27: the history never holds more than max_history events, and holds the
\* latest events that passed the filters, in publish order.
C27_HistoryBounded ==
    /\ Len(event_history) <= max_history
    /\ event_history = LastN(Unfiltered, max_history)

\* the older of two events has been evicted
C27_Witness ==
    /\ max_history = 1
    /\ Len(Unfiltered) = 2
    /\ event_history = <<2>>

\* --------------------------------------------------- claims: rules engine
\* the condition "url contains host.example" holds for the URL
HostExample(url) == Lower(url.host) = "host.example"

\* a rule with that condition has triggered in the evaluation the
\* download.queued event of item i has caused
RuleTriggeredFor(i) ==
    /\ HostExample(queue_items[i].url)
    /\ \E e \in DOMAIN events :
          /\ events[e].type = DOWNLOAD_QUEUED
          /\ events[e].download_id = i
          /\ Invocations(e, 1) = 1
    /\ \E k \in DOMAIN rules : rules[k].trigger_count > 0

\* C28: an item whose URL contains host.example, for which the rule "url
\* contains host.example: set priority URGENT" has triggered, has priority
\* URGENT when it is admitted.
C28_RuleSetsPriority ==
    [][\A i \in Created :
          (Admits(i) /\ RuleTriggeredFor(i))
          => queue_items'[i].priority = URGENT]_vars

\* the tags of an entry are known
KnownTags(rule_dict) ==
    /\ \A k \in DOMAIN rule_dict.conditions :
          /\ rule_dict.conditions[k].condition_type \in RuleConditionType
          /\ rule_dict.conditions[k].operator \in ComparisonOperator
    /\ \A k \in DOMAIN rule_dict.actions :
          rule_dict.actions[k].action_type \in RuleActionType

\* the ids of the rules
RuleIdsOf(rs) == {rs[k].id : k \in DOMAIN rs}

\* C29: load_rules loads exactly the entries of the document whose tags are
\* known.
C29_LoadSkipsBadRule ==
    [][\A rules_data \in Documents :
          LoadRules(rules_data)
          => RuleIdsOf(rules') =
                {rules_data[k].id : k \in {j \in DOMAIN rules_data :
                                              KnownTags(rules_data[j])}}]_vars

\* the handler of the rules engine runs: evaluate_rules is called with the
\* data of the event of the first ready task
Evaluation ==
    /\ ready # <<>>
    /\ Head(ready).kind = "handler"
    /\ Head(ready).callback = "rules"
    /\ RunTask

\* C30: in an evaluation the trigger counters of a rule that is enabled and
\* whose conditions hold go up by one and last_triggered is set; those of
\* every other rule, the disabled ones among them, stay as they are; and a
\* step that is neither an evaluation nor a load changes no counter.
C30_CountersFollowMatches ==
    [][/\ Evaluation =>
          /\ DOMAIN rules' = DOMAIN rules
          /\ \A k \in DOMAIN rules :
                IF /\ rules[k].enabled
                   /\ rules[k].conditions # <<>>
                   /\ HostExample(events[Head(ready).event].url)
                THEN /\ rules'[k].trigger_count = rules[k].trigger_count + 1
                     /\ rules'[k].last_triggered = statistics'.last_evaluation
                ELSE /\ rules'[k].trigger_count = rules[k].trigger_count
                     /\ rules'[k].last_triggered = rules[k].last_triggered
       /\ (~Evaluation /\ ~\E rules_data \in Documents : LoadRules(rules_data))
          => \A k \in DOMAIN rules \cap DOMAIN rules' :
                /\ rules'[k].trigger_count = rules[k].trigger_count
                /\ rules'[k].last_triggered = rules[k].last_triggered]_vars

\* two rules with the same condition: both triggered in the first
\* evaluation, the second one was then disabled and only the first one
\* triggered in the second evaluation
C30_Witness ==
    /\ Len(rules) = 2
    /\ rules[1].trigger_count = 2 /\ rules[1].last_triggered = 2
    /\ ~rules[2].enabled
    /\ rules[2].trigger_count = 1 /\ rules[2].last_triggered = 1

\* ------------------------------------------- claims: retry clock and slots
\* C31: an item for which schedule_retry has set a next-attempt time is
\* admitted to DOWNLOADING only when that time has come, whatever has been
\* done to the item since (pause_item and resume_item included).
C31_NotAdmittedBeforeRetryTime ==
    [][\A i \in Created :
          (Admits(i) /\ i \in DOMAIN retry_times) => retry_times[i] = 0]_vars

\* C32: every item that occupies a download slot or holds a bandwidth
\* reservation is DOWNLOADING.
C32_SlotHoldersAreDownloading ==
    \A i \in active_downloads \cup DOMAIN bw_active : StatusOf(i) = DOWNLOADING

\* C32, second part: an item that resume_item has queued is not dropped from
\* the queue by get_next_item: when an iteration of its loop ends without
\* the popped item in the queue, the item has been admitted or is not (any
\* longer) an item waiting for admission.
C32_ResumedItemNotDropped ==
    [][\A i \in Created :
          (popped = i /\ popped' = NoItem /\ i \in items
              /\ StatusOf(i) \in {PENDING, RETRYING})
          => \/ queue_items'[i].status = DOWNLOADING
             \/ \E k \in DOMAIN priority_queue' : priority_queue'[k] = i]_vars

\* C33: started_at and completed_at are each written at most once in the
\* life of an item, and an item in a terminal status has completed_at set.
C33_InstantsSetOnce ==
    \A i \in Created :
       /\ queue_items[i].started_at <= 1
       /\ queue_items[i].completed_at <= 1
       /\ StatusOf(i) \in Terminal => queue_items[i].completed_at = 1

\* --------------------------------------------------- claims: write-through
\* C34: on a manager connected to Redis the record stored for an item of
\* the manager spells the status the item has in memory (as
\* _save_item_to_redis writes a status), and the store holds no record for
\* an item that clear_completed has purged.
C34_StoreFollowsStatus ==
    redis_client =>
        /\ \A i \in items :
              /\ i \in DOMAIN redis
              /\ redis[i].status = JsonStr(StrQueueStatus(StatusOf(i)))
        /\ \A i \in Created \ items : i \notin DOMAIN redis

\* -------------------------------------------------- claims: engine adapters
\* C35: whatever a child process writes to its stdout and stderr, the
\* download call that has started it returns.
C35_OutputNeverBlocks == (process = "running") ~> (pc = "returned")

\* the state the call cannot leave: the child is blocked in a write to the
\* stream nobody reads, the adapter waits for the other stream
C35_Blocked ==
    /\ process = "running"
    /\ output # <<>>
    /\ pipe[Head(output)] = PipeCapacity
    /\ pc = "readline"
    /\ pipe[Monitored(adapter)] = 0

\* C36: after download of YtDlpAria2Engine has returned, with success or
\* with an error, the aria2c input file it created does not exist.
C36_InputFileRemoved == pc = "returned" => ~input_file

\* ------------------------------------------------ claims: handler ids
\* the ids of the handlers of the list are pairwise distinct
DistinctIds(list) ==
    \A j, k \in DOMAIN list : list[j].id = list[k].id => j = k

\* C37: the ids subscribe has returned for the handlers that are subscribed
\* to one event type are pairwise distinct, and so are the ids of the
\* wildcard handlers.
C37_HandlerIdsUnique ==
    /\ \A type \in EventType : DistinctIds(handlers[type])
    /\ DistinctIds(wildcard_handlers)

\* --------------------------------------- claims: connections come and go
\* C38: publish does not fail because the set of connections changes while
\* a broadcast is going on: a publish call raises only when the event
\* cannot be serialized.
C38_BroadcastSurvivesSetChange ==
    \A e \in DOMAIN events :
       phase[e] = "raised" => dumps(e, events[e]) = TypeError

\* ------------------------------------------------------ claims: rule ids
\* C39: the ids of the rules the engine holds are pairwise distinct.
C39_RuleIdsUnique == DistinctIds(rules)

\* ---------------------------------------------------- claims: rules file
\* C40: create_rules_engine leaves a rules file that exists as it is,
\* whether or not its rules could be loaded.
C40_CreateKeepsExistingFile ==
    [][(CreateRulesEngine /\ rules_file.exists) => rules_file' = rules_file]_vars
====
